---- MODULE Spec2Model ----
(***************************************************************************)
(* Field extraction of the invoice parser (src/parser.py, extract_fields)  *)
(* as a state machine over character sequences.                            *)
(*                                                                         *)
(* A text is a sequence of one-character strings, written Chars("...").    *)
(* The regular expressions of the source are data (sequences of nodes)     *)
(* interpreted by ReMatch, a backtracking matcher with the priorities of   *)
(* Python's re module: greedy repetition, ordered alternation, leftmost    *)
(* match.  The patterns are written in upper case because every search     *)
(* runs on the upper-cased text.                                           *)
(***************************************************************************)
EXTENDS Integers, Sequences, FiniteSets, TLC

\* one call of extract_fields: its argument, the clock and its locals
VARIABLES raw, today, pc, up, lines, out, date_candidates, total_candidates, gst_amounts
\* the calls of extract_fields that run side by side
VARIABLES calls
\* one call of _clean_money
VARIABLES money
\* the run of parser.py: the directories data/ocr, data/parsed and
\* data/parser_failures, the position of the run and the locals of main
VARIABLES parser
\* one module of append_invoice_row (sheets.py or sheets_runtime.py), its
\* service singleton and one call of the function
VARIABLES sheets
\* the Google Sheet of parser.py, the environment switch and the calls of
\* append_to_google_sheet
VARIABLES gsheet
\* the run of retry_failed.py: the directory data/failed_appends with its
\* subdirectories perm and retries, the rows appended, and the scan
VARIABLES retryq
\* the OCR worker: the media directory, the OCR texts, the user registry,
\* the rows appended to the users' sheets, and the run for a sender
VARIABLES worker
\* one call of _norm_text
VARIABLES norm
\* the customer router: the file data/customers.json, the sheets created,
\* and the webhook requests that call get_sheet_for_customer
VARIABLES router

\* the nine variables of the one call of extract_fields
extraction == <<raw, today, pc, up, lines, out, date_candidates, total_candidates, gst_amounts>>
\* the state outside the one call of extract_fields
outside == <<calls, money, parser, sheets, gsheet, retryq, worker, norm, router>>
\* the state outside each of the other parts
butCalls == <<money, parser, sheets, gsheet, retryq, worker, norm, router>>
butMoney == <<calls, parser, sheets, gsheet, retryq, worker, norm, router>>
butParser == <<calls, money, sheets, gsheet, retryq, worker, norm, router>>
butSheets == <<calls, money, parser, gsheet, retryq, worker, norm, router>>
butGsheet == <<calls, money, parser, sheets, retryq, worker, norm, router>>
butRetryq == <<calls, money, parser, sheets, gsheet, worker, norm, router>>
butWorker == <<calls, money, parser, sheets, gsheet, retryq, norm, router>>
butNorm == <<calls, money, parser, sheets, gsheet, retryq, worker, router>>
butRouter == <<calls, money, parser, sheets, gsheet, retryq, worker, norm>>

vars == <<raw, today, pc, up, lines, out, date_candidates, total_candidates, gst_amounts,
          outside>>

---------------------------------------------------------------------------
(* Optional values: Python's None and a present value.                     *)
None == [some |-> FALSE]
Some(v) == [some |-> TRUE, v |-> v]

---------------------------------------------------------------------------
(* Characters.                                                             *)
NL == "\n"
CR == "\r"
\* the rupee sign and the em dash, named: the module is kept in ASCII
RUPEE == "<rupee>"
EMDASH == "<emdash>"
\* the text s as a sequence of its characters
Chars(s) == [i \in 1..Len(s) |-> SubSeq(s, i, i)]

UpperSeq == Chars("ABCDEFGHIJKLMNOPQRSTUVWXYZ")
LowerSeq == Chars("abcdefghijklmnopqrstuvwxyz")
DigitSeq == Chars("0123456789")
UpperSet == {UpperSeq[i] : i \in 1..26}
LowerSet == {LowerSeq[i] : i \in 1..26}
Digits == {DigitSeq[i] : i \in 1..10}
Letters == UpperSet \cup LowerSet
\* \s of the re module, restricted to the characters of the model
Space == {" ", NL, CR, "\t"}
\* \w of the re module
WordChars == Letters \cup Digits \cup {"_"}
Punct == {".", ",", ":", "-", "/", "#", "%", "_", RUPEE, EMDASH}
Alphabet == Letters \cup Digits \cup Space \cup Punct

ToUpperMap == [c \in Alphabet |->
                 IF c \in LowerSet
                 THEN UpperSeq[CHOOSE i \in 1..26 : LowerSeq[i] = c]
                 ELSE c]
ToLowerMap == [c \in Alphabet |->
                 IF c \in UpperSet
                 THEN LowerSeq[CHOOSE i \in 1..26 : UpperSeq[i] = c]
                 ELSE c]
DigitMap == [c \in Digits |-> (CHOOSE i \in 1..10 : DigitSeq[i] = c) - 1]

\* str.upper()
Upper(s) == [i \in 1..Len(s) |-> ToUpperMap[s[i]]]

\* str.title(): a letter that follows a letter is lowered, any other letter
\* is raised; characters without case are kept
Title(s) == [i \in 1..Len(s) |->
               IF s[i] \in Letters
               THEN IF i > 1 /\ s[i-1] \in Letters
                    THEN ToLowerMap[s[i]] ELSE ToUpperMap[s[i]]
               ELSE s[i]]

\* the index after the longest run of characters of S that starts at i
RunEnd(s, i, S) ==
  IF \A k \in i..Len(s) : s[k] \in S THEN Len(s) + 1
  ELSE CHOOSE j \in i..Len(s) : s[j] \notin S /\ \A k \in i..(j - 1) : s[k] \in S

\* the index of the first character of the longest run of S that ends at i
RunStart(s, i, S) ==
  IF \A k \in 1..i : s[k] \in S THEN 1
  ELSE 1 + CHOOSE j \in 1..i : s[j] \notin S /\ \A k \in (j + 1)..i : s[k] \in S

\* str.strip()
Strip(s) ==
  LET a == RunEnd(s, 1, Space)
      b == RunStart(s, Len(s), Space) - 1
  IN  IF a > b THEN <<>> ELSE SubSeq(s, a, b)

\* whether the word w stands in s at index i
At(s, i, w) ==
  /\ i + Len(w) - 1 <= Len(s)
  /\ \A k \in 1..Len(w) : s[i + k - 1] = w[k]

\* the substring test  w in s
Contains(s, w) == \E i \in 1..(Len(s) - Len(w) + 1) : At(s, i, w)

\* the concatenation of pieces that hold at most one character each
Flatten(pieces) ==
  LET full == SelectSeq(pieces, LAMBDA x : x # <<>>)
  IN  [i \in 1..Len(full) |-> full[i][1]]

\* str.replace(w, r) for a word w that does not overlap itself and r of at
\* most one character, as in every call of the source
Replace(s, w, r) ==
  LET inside(i) == \E k \in 1..(Len(w) - 1) : i - k >= 1 /\ At(s, i - k, w)
  IN  Flatten([i \in 1..Len(s) |->
                 IF At(s, i, w) THEN r
                 ELSE IF inside(i) THEN <<>>
                 ELSE <<s[i]>>])

\* the characters of s that are in S, in order
Keep(s, S) == SelectSeq(s, LAMBDA c : c \in S)

RECURSIVE SplitFrom(_, _)
SplitFrom(s, i) ==
  IF i > Len(s) THEN <<>>
  ELSE LET j == RunEnd(s, i, Alphabet \ {NL})
       IN  <<SubSeq(s, i, j - 1)>> \o SplitFrom(s, j + 1)

\* str.splitlines() of a text whose only line boundary is "\n"
SplitLines(s) == SplitFrom(s, 1)

RECURSIVE Join(_, _)
\* sep.join(ss)
Join(ss, sep) ==
  IF ss = <<>> THEN <<>>
  ELSE IF Len(ss) = 1 THEN ss[1]
  ELSE ss[1] \o sep \o Join(Tail(ss), sep)

---------------------------------------------------------------------------
(* Regular expressions.  A pattern is a sequence of nodes:                 *)
(*   Lit(w)        the characters of w                                     *)
(*   Cls(S)        one character of S                                      *)
(*   Rep(S,lo,hi)  lo to hi characters of S, greedy; hi = Unbounded for *  *)
(*   Opt(p)        (?:p)?                                                  *)
(*   Alt(ps)       (?:p1|p2|...), tried in order                           *)
(*   Open(g), Close(g)   the parentheses of capture group g                *)
(*   Eol           $ under re.M                                            *)
(*   Wb            \b                                                      *)
(***************************************************************************)
Unbounded == 0 - 1
Lit(w) == [k |-> "lit", w |-> w]
Cls(S) == [k |-> "cls", s |-> S]
Rep(S, lo, hi) == [k |-> "rep", s |-> S, lo |-> lo, hi |-> hi]
Star(S) == Rep(S, 0, Unbounded)
Plus(S) == Rep(S, 1, Unbounded)
Opt(p) == [k |-> "opt", p |-> p]
Alt(ps) == [k |-> "alt", ps |-> ps]
Open(g) == [k |-> "open", g |-> g]
Close(g) == [k |-> "close", g |-> g]
Eol == [k |-> "eol"]
Wb == [k |-> "wb"]

NoMatch == [ok |-> FALSE, start |-> 0, end |-> 0, g |-> <<<<0, 0>>, <<0, 0>>>>]

IsWordAt(s, i) == i >= 1 /\ i <= Len(s) /\ s[i] \in WordChars

RECURSIVE ReMatch(_, _, _, _, _)
RECURSIVE ReTryRep(_, _, _, _, _, _)
RECURSIVE ReTryAlt(_, _, _, _, _, _)

\* the pattern p matched at index i of s, from the group positions g
\* collected so far; i0 is where the whole match started
ReMatch(p, s, i0, i, g) ==
  IF p = <<>> THEN [ok |-> TRUE, start |-> i0, end |-> i, g |-> g]
  ELSE
    LET n == Head(p)
        rest == Tail(p)
    IN  CASE n.k = "lit" ->
               IF At(s, i, n.w) THEN ReMatch(rest, s, i0, i + Len(n.w), g) ELSE NoMatch
          [] n.k = "cls" ->
               IF i <= Len(s) /\ s[i] \in n.s THEN ReMatch(rest, s, i0, i + 1, g) ELSE NoMatch
          [] n.k = "rep" ->
               LET run == RunEnd(s, i, n.s)
                   top == IF n.hi # Unbounded /\ i + n.hi < run THEN i + n.hi ELSE run
               IN  IF top < i + n.lo THEN NoMatch
                   ELSE ReTryRep(rest, s, i0, top, i + n.lo, g)
          [] n.k = "opt" ->
               LET taken == ReMatch(n.p \o rest, s, i0, i, g)
               IN  IF taken.ok THEN taken ELSE ReMatch(rest, s, i0, i, g)
          [] n.k = "alt" -> ReTryAlt(n.ps, rest, s, i0, i, g)
          [] n.k = "open" -> ReMatch(rest, s, i0, i, [g EXCEPT ![n.g] = <<i, i>>])
          [] n.k = "close" -> ReMatch(rest, s, i0, i, [g EXCEPT ![n.g] = <<g[n.g][1], i>>])
          [] n.k = "eol" ->
               IF i = Len(s) + 1 \/ (i <= Len(s) /\ s[i] = NL)
               THEN ReMatch(rest, s, i0, i, g) ELSE NoMatch
          [] n.k = "wb" ->
               IF IsWordAt(s, i - 1) # IsWordAt(s, i)
               THEN ReMatch(rest, s, i0, i, g) ELSE NoMatch

\* greedy repetition: the longest run with which the rest matches, tried
\* from the end top of the whole run down to low
ReTryRep(rest, s, i0, top, low, g) ==
  LET fits(j) == ReMatch(rest, s, i0, j, g).ok
  IN  IF \E j \in low..top : fits(j)
      THEN ReMatch(rest, s, i0,
                   top - (CHOOSE d \in 0..(top - low) :
                            fits(top - d) /\ \A e \in 0..(d - 1) : ~fits(top - e)),
                   g)
      ELSE NoMatch

\* ordered alternation: the first alternative with which the rest matches
ReTryAlt(ps, rest, s, i0, i, g) ==
  IF ps = <<>> THEN NoMatch
  ELSE LET r == ReMatch(Head(ps) \o rest, s, i0, i, g)
       IN  IF r.ok THEN r ELSE ReTryAlt(Tail(ps), rest, s, i0, i, g)

\* re.match at the index j
ReMatchAt(p, s, j) ==
  IF j > Len(s) + 1 THEN NoMatch ELSE ReMatch(p, s, j, j, NoMatch.g)

\* the leftmost index from i on at which p matches, Len(s) + 2 without one
ReFirstIndex(p, s, i) ==
  CHOOSE j \in i..(Len(s) + 2) :
    /\ j = Len(s) + 2 \/ ReMatchAt(p, s, j).ok
    /\ \A k \in i..(j - 1) : ~ReMatchAt(p, s, k).ok

\* re.search: the match at the leftmost index from i on
ReSearchFrom(p, s, i) == ReMatchAt(p, s, ReFirstIndex(p, s, i))

ReSearch(p, s) == ReSearchFrom(p, s, 1)

RECURSIVE ReFindIterFrom(_, _, _)
RECURSIVE ReFindIterNext(_, _, _)
\* re.finditer: the non-overlapping matches, left to right
ReFindIterFrom(p, s, i) == ReFindIterNext(p, s, ReSearchFrom(p, s, i))

\* the match r and the matches after it
ReFindIterNext(p, s, r) ==
  IF ~r.ok THEN <<>>
  ELSE <<r>> \o ReFindIterFrom(p, s, IF r.end > r.start THEN r.end ELSE r.end + 1)

ReFindIter(p, s) == ReFindIterFrom(p, s, 1)

\* m.group(n)
Group(s, m, n) == SubSeq(s, m.g[n][1], m.g[n][2] - 1)

\* m.group(0)
Group0(s, m) == SubSeq(s, m.start, m.end - 1)

\* s with each of the matches ms replaced by r
ReSubMatches(ms, r, s) ==
  Flatten([i \in 1..Len(s) |->
             IF \E k \in 1..Len(ms) : ms[k].start = i THEN r
             ELSE IF \E k \in 1..Len(ms) : ms[k].start < i /\ i < ms[k].end THEN <<>>
             ELSE <<s[i]>>])

\* re.sub(p, r, s) for a pattern without empty match and r of at most one
\* character
ReSub(p, r, s) == ReSubMatches(ReFindIter(p, s), r, s)

---------------------------------------------------------------------------
(* Floats.  A finite float is a sign, the decimal digits of its integer    *)
(* part (most significant first, no leading zero) and the digits of its    *)
(* fraction (no trailing zero); inf is the overflow value of float().  A   *)
(* float is modelled by the decimal number it was read from, and sums are  *)
(* decimal sums: the rounding of a double in its seventeenth significant   *)
(* digit is left out.                                                      *)
(***************************************************************************)
RECURSIVE Pow10(_)
Pow10(n) == IF n = 0 THEN 1 ELSE 10 * Pow10(n - 1)

RECURSIVE DigitsVal(_, _)
\* the number written by the first n digits of s, for a short s
DigitsVal(s, n) == IF n = 0 THEN 0 ELSE 10 * DigitsVal(s, n - 1) + DigitMap[s[n]]

\* the digit values of a digit string
DigitVals(s) == [i \in 1..Len(s) |-> DigitMap[s[i]]]

TrimLead(ds) == SubSeq(ds, RunEnd(ds, 1, {0}), Len(ds))
TrimTrail(ds) == SubSeq(ds, 1, RunStart(ds, Len(ds), {0}) - 1)
PadLeft(ds, n) == [i \in 1..n |-> IF i > n - Len(ds) THEN ds[i - (n - Len(ds))] ELSE 0]
PadRight(ds, n) == [i \in 1..n |-> IF i <= Len(ds) THEN ds[i] ELSE 0]

\* x < y for digit sequences of one length
SeqLess(x, y) ==
  \E i \in 1..Len(x) : x[i] < y[i] /\ \A k \in 1..(i - 1) : x[k] = y[k]

Inf == [inf |-> TRUE, neg |-> FALSE, ip |-> <<>>, fr |-> <<>>]

\* the finite float  (-1)^neg * ip.fr
Canon(neg, ip, fr) ==
  [inf |-> FALSE, neg |-> neg, ip |-> TrimLead(ip), fr |-> TrimTrail(fr)]

\* the float written ip.fr, as in Num(<<"9","6","8">>, <<"5">>) for 968.5
Num(ip, fr) == Canon(FALSE, DigitVals(ip), DigitVals(fr))

\* the largest double, 1.7976931348623157e308, has 309 integer digits
FloatMaxIntDigits == 309

\* a decimal at or above this 18-digit prefix with 309 integer digits rounds
\* beyond the largest double
DoubleLimitDigits == <<1, 7, 9, 7, 6, 9, 3, 1, 3, 4, 8, 6, 2, 3, 1, 5, 8, 1>>

\* whether the number with the integer digits ip is out of the range of a
\* double
Overflows(ip) ==
  LET sig == TrimLead(ip)
  IN  \/ Len(sig) > FloatMaxIntDigits
      \/ /\ Len(sig) = FloatMaxIntDigits
         /\ ~SeqLess(SubSeq(sig, 1, Len(DoubleLimitDigits)), DoubleLimitDigits)

Longer(x, y) == IF Len(x) > Len(y) THEN Len(x) ELSE Len(y)

\* magnitude comparison of finite floats: |a| < |b|
MagLess(a, b) ==
  LET k == Longer(a.fr, b.fr)
  IN  \/ Len(a.ip) < Len(b.ip)
      \/ Len(a.ip) = Len(b.ip) /\ SeqLess(a.ip, b.ip)
      \/ a.ip = b.ip /\ SeqLess(PadRight(a.fr, k), PadRight(b.fr, k))

IsZero(a) == ~a.inf /\ a.ip = <<>> /\ a.fr = <<>>

\* a < b on floats
FloatLess(a, b) ==
  IF a.inf \/ b.inf
  THEN (b.inf /\ ~b.neg /\ ~(a.inf /\ ~a.neg)) \/ (a.inf /\ a.neg /\ ~(b.inf /\ b.neg))
  ELSE IF IsZero(a) /\ IsZero(b) THEN FALSE
  ELSE IF a.neg /\ ~b.neg THEN TRUE
  ELSE IF ~a.neg /\ b.neg THEN FALSE
  ELSE IF a.neg THEN MagLess(b, a)
  ELSE MagLess(a, b)

\* x + y for digit sequences of one length n; the result has n + 1 digits
AddDigits(x, y) ==
  LET n == Len(x)
      carry(i) == \E j \in (i + 1)..n :
                    x[j] + y[j] >= 10 /\ \A k \in (i + 1)..(j - 1) : x[k] + y[k] = 9
  IN  [i \in 1..(n + 1) |->
         IF i = 1 THEN (IF carry(0) THEN 1 ELSE 0)
         ELSE (x[i - 1] + y[i - 1] + (IF carry(i - 1) THEN 1 ELSE 0)) % 10]

\* x - y for digit sequences of one length with x >= y
SubDigits(x, y) ==
  LET n == Len(x)
      borrow(i) == \E j \in (i + 1)..n :
                     x[j] < y[j] /\ \A k \in (i + 1)..(j - 1) : x[k] = y[k]
  IN  [i \in 1..n |-> (x[i] - y[i] - (IF borrow(i) THEN 1 ELSE 0) + 10) % 10]

\* the digits of a finite float with w integer and k fraction digits
Aligned(a, w, k) == PadLeft(a.ip, w) \o PadRight(a.fr, k)

\* |a| + |b| of finite floats, with the sign neg
MagAdd(neg, a, b) ==
  LET w == Longer(a.ip, b.ip)
      k == Longer(a.fr, b.fr)
      r == AddDigits(Aligned(a, w, k), Aligned(b, w, k))
  IN  IF Overflows(SubSeq(r, 1, w + 1)) THEN [Inf EXCEPT !.neg = neg]
      ELSE Canon(neg, SubSeq(r, 1, w + 1), SubSeq(r, w + 2, w + 1 + k))

\* |a| - |b| of finite floats with |a| >= |b|, with the sign neg
MagSub(neg, a, b) ==
  LET w == Longer(a.ip, b.ip)
      k == Longer(a.fr, b.fr)
      r == SubDigits(Aligned(a, w, k), Aligned(b, w, k))
  IN  Canon(neg, SubSeq(r, 1, w), SubSeq(r, w + 1, w + k))

\* a + b on floats (no inf of opposite signs arises from parsed text)
FloatAdd(a, b) ==
  IF a.inf THEN a
  ELSE IF b.inf THEN b
  ELSE IF a.neg = b.neg THEN MagAdd(a.neg, a, b)
  ELSE IF MagLess(a, b) THEN MagSub(b.neg, b, a)
  ELSE IF MagLess(b, a) THEN MagSub(a.neg, a, b)
  ELSE Canon(FALSE, <<>>, <<>>)

\* math.isfinite(a) and a >= 0
FiniteNonNegative(a) == ~a.inf /\ (~a.neg \/ IsZero(a))

\* a faulty variant of PyInt: the empty text reads as 0
IntOrZero(s) ==
  LET neg == s # <<>> /\ s[1] = "-"
      t == IF neg THEN Tail(s) ELSE s
  IN  IF \E i \in 1..Len(t) : t[i] \notin Digits THEN None
      ELSE Some([neg |-> neg, digits |-> DigitVals(t)])

\* int(s) for s over digits, "." and "-": Some(value), or None for ValueError
PyInt(s) ==
  LET neg == s # <<>> /\ s[1] = "-"
      t == IF neg THEN Tail(s) ELSE s
  IN  IF t = <<>> \/ \E i \in 1..Len(t) : t[i] \notin Digits THEN None
      ELSE Some([neg |-> neg, digits |-> DigitVals(t)])

\* float(n) of an int: OverflowError beyond the range of a double
FloatOfInt(n) ==
  IF Overflows(n.digits) THEN None ELSE Some(Canon(n.neg, n.digits, <<>>))

\* float(s) for s over digits, "." and "-": Some(value), inf beyond the
\* range of a double, or None for ValueError
PyFloat(s) ==
  LET neg == s # <<>> /\ s[1] = "-"
      t == IF neg THEN Tail(s) ELSE s
      d == RunEnd(t, 1, Digits)
      ipart == SubSeq(t, 1, d - 1)
      fpart == IF d <= Len(t) THEN SubSeq(t, d + 1, Len(t)) ELSE <<>>
  IN  IF \/ \E i \in 1..Len(t) : t[i] \notin Digits \cup {"."}
         \/ (d <= Len(t) /\ t[d] # ".")
         \/ \E i \in 1..Len(fpart) : fpart[i] \notin Digits
         \/ (ipart = <<>> /\ fpart = <<>>)
      THEN None
      ELSE IF Overflows(DigitVals(ipart)) THEN Some([Inf EXCEPT !.neg = neg])
      ELSE Some(Canon(neg, DigitVals(ipart), DigitVals(fpart)))

\* the value float(s) if '.' in s else float(int(s)), or None on exception
FloatOrInt(s) ==
  IF Contains(s, <<".">>) THEN PyFloat(s)
  ELSE LET n == PyInt(s)
       IN  IF n.some THEN FloatOfInt(n.v) ELSE None

\* _clean_money
CleanMoney(s0) ==
  IF s0 = <<>> THEN None
  ELSE
    LET s1 == Strip(s0)
        s2 == Replace(Replace(Replace(Replace(s1, <<RUPEE>>, <<>>),
                                      Chars("Rs."), <<>>), Chars("Rs"), <<>>), Chars("INR"), <<>>)
        s3 == Replace(Replace(s2, <<",">>, <<>>), <<" ">>, <<>>)
        s4 == Keep(s3, Digits \cup {".", "-"})
    IN  FloatOrInt(s4)

---------------------------------------------------------------------------
(* _norm_text                                                              *)
BlankLinesRe == <<Cls({NL}), Plus(Space), Cls({NL})>>
DigitOhDigitRe == <<Wb, Plus(Digits), Lit(Chars("O")), Plus(Digits), Wb>>
EllRunRe == <<Wb, Rep({"l", "I"}, 2, Unbounded), Wb>>

\* the OCR fix of a letter O between digits: every O becomes 0
FixOhs(t) == IF ReSearch(DigitOhDigitRe, t).ok THEN Replace(t, Chars("O"), Chars("0")) ELSE t

\* the fix for a run of l and I anywhere, also inside a word
FixEllsAnywhere(t) ==
  IF ReSearch(<<Rep({"l", "I"}, 2, Unbounded)>>, t).ok THEN Replace(t, Chars("l"), Chars("1")) ELSE t

\* the OCR fix of a run of l and I: every l becomes 1
FixElls(t) == IF ReSearch(EllRunRe, t).ok THEN Replace(t, Chars("l"), Chars("1")) ELSE t

NormText(t) == FixElls(FixOhs(ReSub(BlankLinesRe, <<NL>>, Replace(t, <<CR>>, <<NL>>))))

\* [ln.strip() for ln in up.splitlines() if ln.strip()]
StrippedLines(u) ==
  LET ls == SplitLines(u)
      st == [i \in 1..Len(ls) |-> Strip(ls[i])]
  IN  SelectSeq(st, LAMBDA l : l # <<>>)

---------------------------------------------------------------------------
(* The module-level pattern tables.                                        *)
NumSep == Digits \cup {",", "."}
AmountChars == NumSep \cup Space
LabelSep == {":", "-"} \cup Space
TokenChars == Letters \cup Digits \cup {"-", "/", "."}
MonthAlt ==
  Alt(<< <<Lit(Chars("JAN"))>>, <<Lit(Chars("FEB"))>>, <<Lit(Chars("MAR"))>>, <<Lit(Chars("APR"))>>,
         <<Lit(Chars("MAY"))>>, <<Lit(Chars("JUN"))>>, <<Lit(Chars("JUL"))>>, <<Lit(Chars("AUG"))>>,
         <<Lit(Chars("SEP"))>>, <<Lit(Chars("SEPT"))>>, <<Lit(Chars("OCT"))>>, <<Lit(Chars("NOV"))>>,
         <<Lit(Chars("DEC"))>> >>)

DATE_PATTERNS ==
  << <<Open(1), Rep(Digits, 1, 2), Cls({"/", "-"}), Rep(Digits, 1, 2),
       Cls({"/", "-"}), Rep(Digits, 2, 4), Close(1)>>,
     <<Open(1), Rep(Digits, 1, 2), Plus(Space), MonthAlt, Star(UpperSet \cup LowerSet),
       Star({","} \cup Space), Rep(Digits, 2, 4), Close(1)>>,
     <<Open(1), MonthAlt, Star(UpperSet \cup LowerSet), Plus(Space), Rep(Digits, 1, 2),
       Rep({","}, 0, 1), Plus(Space), Rep(Digits, 4, 4), Close(1)>>,
     <<Open(1), Rep(Digits, 4, 4), Cls({"/", "-"}), Rep(Digits, 1, 2),
       Cls({"/", "-"}), Rep(Digits, 1, 2), Close(1)>> >>

INVOICE_PATTERNS ==
  << <<Lit(Chars("INVOICE")), Star(Space),
       Opt(<<Alt(<< <<Lit(Chars("NO"))>>, <<Lit(Chars("NUMBER"))>>, <<Lit(Chars("#"))>>, <<Lit(Chars(":"))>> >>)>>),
       Star(Space), Star(LabelSep), Open(1), Plus(TokenChars), Close(1)>>,
     <<Lit(Chars("INV")), Alt(<< <<Lit(Chars("."))>>, <<>> >>), Star(Space),
       Opt(<<Alt(<< <<Lit(Chars("NO"))>>, <<Lit(Chars("#"))>> >>)>>),
       Star(Space), Star(LabelSep), Open(1), Plus(TokenChars), Close(1)>>,
     <<Lit(Chars("BILL")), Star(Space),
       Opt(<<Alt(<< <<Lit(Chars("NO"))>>, <<Lit(Chars("#"))>> >>)>>),
       Star(Space), Star(LabelSep), Open(1), Plus(TokenChars), Close(1)>>,
     <<Lit(Chars("INVOICE")), Star(Space), Star(LabelSep), Open(1),
       Rep(TokenChars, 3, 30), Close(1)>> >>

TOTAL_PATTERNS ==
  << <<Open(1),
       Alt(<< <<Lit(Chars("GRAND TOTAL")), Opt(<<Lit(Chars(" AMOUNT"))>>)>>,
              <<Lit(Chars("TOTAL AMOUNT AFTER TAX"))>>,
              <<Lit(Chars("TOTAL AMOUNT"))>>,
              <<Lit(Chars("AMOUNT DUE"))>>,
              <<Lit(Chars("TOTAL PAYABLE"))>>,
              <<Lit(Chars("INVOICE TOTAL"))>>,
              <<Lit(Chars("AMOUNT"))>> >>),
       Close(1), Star(Space), Star(LabelSep), Rep({RUPEE}, 0, 1), Star(Space),
       Open(2), Plus(AmountChars), Close(2)>>,
     <<Open(1), Lit(Chars("TOTAL")), Close(1), Star(Space), Star(LabelSep),
       Rep({RUPEE}, 0, 1), Star(Space), Open(2), Plus(NumSep), Close(2), Eol>> >>

\* the unlabeled monetary number of the fallback tier
MONEY_PAIR_RE ==
  <<Rep({RUPEE}, 0, 1), Star(Space), Open(1), Cls(Digits),
    Rep(NumSep \cup {" "}, 1, Unbounded), Cls(Digits), Close(1)>>

GST_LINE_PATTERNS ==
  << <<Open(1), Lit(Chars("TOTAL")), Star(Space), Lit(Chars("TAX")), Star(LabelSep), Close(1),
       Open(2), Plus(AmountChars), Close(2)>>,
     <<Open(1), Lit(Chars("TAXABLE AMOUNT")), Star(LabelSep), Close(1),
       Open(2), Plus(AmountChars), Close(2)>>,
     <<Open(1), Alt(<< <<Lit(Chars("CGST"))>>, <<Lit(Chars("SGST"))>>, <<Lit(Chars("IGST"))>> >>), Close(1),
       Star(Alphabet \ Digits), Open(2), Plus(AmountChars), Close(2)>> >>

TOTAL_TAX_RE == GST_LINE_PATTERNS[1]

GSTIN_RE == <<Open(1), Rep(Digits \cup UpperSet, 2, 2), Rep(UpperSet \cup Digits, 10, 10), Close(1)>>

HEADING_RE ==
  <<Wb, Open(1),
    Alt(<< <<Lit(Chars("TAX INVOICE"))>>, <<Lit(Chars("TAXINVOICE"))>>, <<Lit(Chars("INVOICE"))>>,
           <<Lit(Chars("INVOICE NO"))>>, <<Lit(Chars("INVOICE#"))>> >>),
    Close(1), Wb>>

---------------------------------------------------------------------------
(* dtparser.parse(s, dayfirst=True, fuzzy=True) of python-dateutil, for    *)
(* the strings the date patterns can match: digits, "/", "-", ",",         *)
(* whitespace and one word.  The lexer cuts s into numbers, words and      *)
(* single separator characters; numbers and month names are collected in   *)
(* a year/month/day list, which is then resolved day-first.                *)
(***************************************************************************)
RECURSIVE Tokens(_, _)
Tokens(s, i) ==
  IF i > Len(s) THEN <<>>
  ELSE IF s[i] \in Digits
       THEN LET j == RunEnd(s, i, Digits)
            IN  <<[t |-> "num", s |-> SubSeq(s, i, j - 1)]>> \o Tokens(s, j)
  ELSE IF s[i] \in Letters
       THEN LET j == RunEnd(s, i, Letters)
            IN  <<[t |-> "word", s |-> SubSeq(s, i, j - 1)]>> \o Tokens(s, j)
  ELSE <<[t |-> "sep", s |-> IF s[i] \in Space THEN <<" ">> ELSE <<s[i]>>]>>
         \o Tokens(s, i + 1)

MonthNames ==
  << {Chars("JAN"), Chars("JANUARY")}, {Chars("FEB"), Chars("FEBRUARY")}, {Chars("MAR"), Chars("MARCH")}, {Chars("APR"), Chars("APRIL")},
     {Chars("MAY")}, {Chars("JUN"), Chars("JUNE")}, {Chars("JUL"), Chars("JULY")}, {Chars("AUG"), Chars("AUGUST")},
     {Chars("SEP"), Chars("SEPT"), Chars("SEPTEMBER")}, {Chars("OCT"), Chars("OCTOBER")}, {Chars("NOV"), Chars("NOVEMBER")},
     {Chars("DEC"), Chars("DECEMBER")} >>

\* parserinfo.month: 1..12, or 0 for a word that names no month
MonthOf(w) ==
  LET u == Upper(w)
  IN  IF \E m \in 1..12 : u \in MonthNames[m]
      THEN CHOOSE m \in 1..12 : u \in MonthNames[m]
      ELSE 0

\* parserinfo.jump, for separator tokens
IsJump(tok) == tok.t = "sep" /\ tok.s[1] \in {" ", ".", ",", ";", "-", "/", "'"}

NoYmd == [v |-> <<>>, y |-> 0, m |-> 0, c |-> FALSE, err |-> FALSE]

\* _ymd.append: a digit string of more than two digits, or a number above
\* 100, is a year; label is "M" for a month name
YmdAppend(st, val, isYear, label) ==
  IF label = "M"
  THEN IF isYear \/ st.m # 0 THEN [st EXCEPT !.err = TRUE]
       ELSE [st EXCEPT !.v = Append(st.v, val), !.m = Len(st.v) + 1]
  ELSE IF isYear
  THEN IF st.y # 0 THEN [st EXCEPT !.err = TRUE]
       ELSE [st EXCEPT !.v = Append(st.v, val), !.y = Len(st.v) + 1, !.c = TRUE]
  ELSE [st EXCEPT !.v = Append(st.v, val)]

\* append of the token text (a string)
AppendStr(st, tok) ==
  IF tok.t = "num"
  THEN YmdAppend(st, DigitsVal(tok.s, Len(tok.s)), Len(tok.s) > 2, "")
  ELSE IF tok.t = "word" /\ MonthOf(tok.s) # 0
  THEN YmdAppend(st, MonthOf(tok.s), FALSE, "M")
  ELSE [st EXCEPT !.err = TRUE]

\* append of the token value (a number)
AppendNum(st, tok) ==
  LET n == DigitsVal(tok.s, Len(tok.s))
  IN  YmdAppend(st, n, n > 100, "")

RECURSIVE YmdWalk(_, _, _)
\* the token loop of parser._parse (with _parse_numeric_token)
YmdWalk(toks, i, st) ==
  IF st.err \/ i > Len(toks) THEN st
  ELSE
    LET tok == toks[i]
        n == Len(toks)
    IN  IF tok.t = "num"
        THEN IF i + 1 <= n /\ toks[i + 1].t = "sep" /\ toks[i + 1].s[1] \in {"-", "/", "."}
             THEN \* 01-01[-01]
               LET sep == toks[i + 1].s
                   st1 == AppendStr(st, tok)
               IN  IF i + 2 <= n /\ ~IsJump(toks[i + 2])
                   THEN LET st2 == IF st1.err THEN st1 ELSE AppendStr(st1, toks[i + 2])
                        IN  IF i + 3 <= n /\ toks[i + 3].t = "sep" /\ toks[i + 3].s = sep
                            THEN IF i + 4 > n THEN [st2 EXCEPT !.err = TRUE]
                                 ELSE YmdWalk(toks, i + 5,
                                              IF st2.err THEN st2 ELSE AppendStr(st2, toks[i + 4]))
                            ELSE YmdWalk(toks, i + 3, st2)
                   ELSE YmdWalk(toks, i + 2, st1)
             ELSE IF i + 1 > n \/ IsJump(toks[i + 1])
             THEN YmdWalk(toks, i + 1, AppendNum(st, tok))
             ELSE \* fuzzy: the token is skipped
               YmdWalk(toks, i + 1, st)
        ELSE IF tok.t = "word" /\ MonthOf(tok.s) # 0
        THEN YmdWalk(toks, i + 1, YmdAppend(st, MonthOf(tok.s), FALSE, "M"))
        ELSE \* a separator, or fuzzy: an unknown word is skipped
          YmdWalk(toks, i + 1, st)

Absent == 0 - 1
Ymd(y, m, d) == [y |-> y, m |-> m, d |-> d]

\* _ymd.resolve_ymd(yearfirst=False, dayfirst=True); Absent is None
ResolveYmd(st) ==
  LET v == st.v
      n == Len(v)
      known == (IF st.y # 0 THEN 1 ELSE 0) + (IF st.m # 0 THEN 1 ELSE 0)
  IN  IF n = 0 THEN Ymd(Absent, Absent, Absent)
      ELSE IF (n = known) \/ (n = 3 /\ known = 2)
      THEN \* _resolve_from_stridxs
        LET rest == CHOOSE k \in 0..3 :
                      IF n = 3 /\ known = 2
                      THEN k \in 1..3 /\ k # st.y /\ k # st.m
                      ELSE k = 0
        IN  Ymd(IF st.y # 0 THEN v[st.y] ELSE Absent,
                IF st.m # 0 THEN v[st.m] ELSE Absent,
                IF rest # 0 THEN v[rest] ELSE Absent)
      ELSE IF n > 3 THEN Ymd(Absent, Absent, Absent)
      ELSE IF n = 1 \/ (st.m # 0 /\ n = 2)
      THEN LET other == IF st.m # 0 THEN v[IF st.m = 1 THEN n ELSE st.m - 1] ELSE v[1]
               month == IF st.m # 0 THEN v[st.m] ELSE Absent
           IN  IF n > 1 \/ st.m = 0
               THEN IF other > 31 THEN Ymd(other, month, Absent)
                    ELSE Ymd(Absent, month, other)
               ELSE Ymd(Absent, month, Absent)
      ELSE IF n = 2
      THEN IF v[1] > 31 THEN Ymd(v[1], v[2], Absent)
           ELSE IF v[2] > 31 THEN Ymd(v[2], v[1], Absent)
           ELSE IF v[2] <= 12 THEN Ymd(Absent, v[2], v[1])
           ELSE Ymd(Absent, v[1], v[2])
      ELSE IF st.m = 1
      THEN IF v[2] > 31 THEN Ymd(v[2], v[1], v[3]) ELSE Ymd(v[3], v[1], v[2])
      ELSE IF st.m = 2
      THEN IF v[1] > 31 THEN Ymd(v[1], v[2], v[3]) ELSE Ymd(v[3], v[2], v[1])
      ELSE IF st.m = 3
      THEN IF v[2] > 31 THEN Ymd(v[2], v[3], v[1]) ELSE Ymd(v[1], v[3], v[2])
      ELSE IF v[1] > 31 \/ st.y = 1
      THEN IF v[3] <= 12 THEN Ymd(v[1], v[3], v[2]) ELSE Ymd(v[1], v[2], v[3])
      ELSE IF v[1] > 12 \/ v[2] <= 12
      THEN Ymd(v[3], v[2], v[1])
      ELSE Ymd(v[3], v[1], v[2])

\* parserinfo.convertyear: a year without century is placed within fifty
\* years of the current year
ConvertYear(y, century_specified, now) ==
  IF y < 100 /\ ~century_specified
  THEN LET c == y + (now.y \div 100) * 100
       IN  IF c >= now.y + 50 THEN c - 100
           ELSE IF c < now.y - 50 THEN c + 100
           ELSE c
  ELSE y

IsLeap(y) == (y % 4 = 0 /\ y % 100 # 0) \/ y % 400 = 0

\* calendar.monthrange(y, m)[1]
DaysIn(y, m) ==
  IF m = 2 THEN (IF IsLeap(y) THEN 29 ELSE 28)
  ELSE IF m \in {4, 6, 9, 11} THEN 30 ELSE 31

\* a faulty variant of ValidDate: every day number is taken for a date
AnyDate(d) == TRUE

\* what datetime.replace accepts
ValidDate(d) ==
  /\ d.y \in 1..9999
  /\ d.m \in 1..12
  /\ d.d >= 1 /\ d.d <= DaysIn(d.y, d.m)

\* parser._build_naive: fields the text does not give come from the default,
\* today's date
BuildNaive(r, century_specified, now) ==
  LET y == IF r.y = Absent THEN now.y ELSE ConvertYear(r.y, century_specified, now)
      m == IF r.m = Absent THEN now.m ELSE r.m
      d == IF r.d # Absent THEN r.d
           ELSE IF m \in 1..12 /\ y \in 1..9999 /\ now.d > DaysIn(y, m) THEN DaysIn(y, m)
           ELSE now.d
  IN  Ymd(y, m, d)

\* the date d if datetime accepts it
Checked(d) == IF ValidDate(d) THEN Some(d) ELSE None

\* the date of the collected year/month/day list st
DateOfYmd(st, now) ==
  IF st.err \/ Len(st.v) = 0 \/ Len(st.v) > 3 THEN None
  ELSE Checked(BuildNaive(ResolveYmd(st), st.c, now))

\* dtparser.parse(s, dayfirst=True, fuzzy=True).date(): Some(date), or None
\* when the parser raises
DtParse(s, now) == DateOfYmd(YmdWalk(Tokens(s, 1), 1, NoYmd), now)

\* date ordering
DateLess(a, b) ==
  \/ a.y < b.y
  \/ a.y = b.y /\ a.m < b.m
  \/ a.y = b.y /\ a.m = b.m /\ a.d < b.d

\* the decimal digits of n, padded with zeros to the width w
ZeroPad(n, w) == [i \in 1..w |-> DigitSeq[((n \div Pow10(w - i)) % 10) + 1]]

\* date.isoformat()
IsoFormat(d) == ZeroPad(d.y, 4) \o Chars("-") \o ZeroPad(d.m, 2) \o Chars("-") \o ZeroPad(d.d, 2)

---------------------------------------------------------------------------
(* extract_fields, section by section.                                     *)
(***************************************************************************)
NoFields == [supplier |-> None, invoice_number |-> None, date |-> None,
             total |-> None, gst |-> None]

\* the first index at which the sequence bs of booleans is true, or 0
FirstTrue(bs) ==
  CHOOSE i \in 0..Len(bs) :
    /\ \A j \in 1..(i - 1) : ~bs[j]
    /\ IF i = 0 THEN \A j \in 1..Len(bs) : ~bs[j] ELSE bs[i]

\* the values of the present entries of a sequence of optional values
Present(opts) ==
  LET kept == SelectSeq(opts, LAMBDA p : p.some)
  IN  [i \in 1..Len(kept) |-> kept[i].v]

\* the index of the first line with an invoice heading, or 0
FirstHeading(ls) == FirstTrue([i \in 1..Len(ls) |-> ReSearch(HEADING_RE, ls[i]).ok])

IsGstinLine(l) == Contains(l, Chars("GSTIN")) \/ ReSearch(GSTIN_RE, l).ok

\* the index of the first line with a GSTIN, or 0
FirstGstin(ls) == FirstTrue([i \in 1..Len(ls) |-> IsGstinLine(ls[i])])

\* the lines above the heading at index h, unless there is none
HeadingSupplier(ls, h) ==
  LET supplier_block == Join(SubSeq(ls, 1, h - 1), <<" ">>)
  IN  IF supplier_block # <<>> THEN Some(Title(supplier_block)) ELSE None

\* up to three lines above the GSTIN line at index i; i = 0 without one
GstinSupplier(ls, i) ==
  IF i # 0
  THEN LET candidate == Join(SubSeq(ls, IF i - 3 > 1 THEN i - 3 ELSE 1, i - 1), <<" ">>)
       IN  Some(Title(candidate))
  ELSE None

\* the GSTIN rule also where the block above the heading is empty
HeadingThenGstin(ls, h) ==
  IF h = 0 \/ h = 1 THEN GstinSupplier(ls, FirstGstin(ls)) ELSE HeadingSupplier(ls, h)

\* the supplier, given the index h of the first heading
SupplierFrom(ls, h) ==
  IF h = 0 THEN GstinSupplier(ls, FirstGstin(ls)) ELSE HeadingSupplier(ls, h)

\* 1) the supplier: the block above the first heading, else the lines
\* above the GSTIN
SupplierOf(ls) == SupplierFrom(ls, FirstHeading(ls))

RECURSIVE FirstPattern(_, _, _)
RECURSIVE CaptureOrNext(_, _, _, _)
\* the first pattern of pats, from index k on, that matches anywhere in u
FirstPattern(pats, u, k) ==
  IF k > Len(pats) THEN None ELSE CaptureOrNext(ReSearch(pats[k], u), pats, u, k)

\* m.group(1).strip() of the match m of pattern k, else the next pattern
CaptureOrNext(m, pats, u, k) ==
  IF m.ok THEN Some(Strip(Group(u, m, 1))) ELSE FirstPattern(pats, u, k + 1)

\* 2) the invoice number
InvoiceNumberOf(u) == FirstPattern(INVOICE_PATTERNS, u, 1)

\* str.strip(chars)
StripChars(s, S) ==
  LET a == RunEnd(s, 1, S)
      b == RunStart(s, Len(s), S) - 1
  IN  IF a > b THEN <<>> ELSE SubSeq(s, a, b)

\* the dates parsed from the matches of one pattern; a match the parser
\* rejects is dropped
DatesOfMatches(ms, u, now) ==
  Present([i \in 1..Len(ms) |->
             DtParse(StripChars(Group(u, ms[i], 1), {" ", ".", ",", ":"}), now)])

DatesOfPattern(pat, u, now) == DatesOfMatches(ReFindIter(pat, u), u, now)

RECURSIVE DateCandidatesFrom(_, _, _)
DateCandidatesFrom(u, now, k) ==
  IF k > Len(DATE_PATTERNS) THEN <<>>
  ELSE DatesOfPattern(DATE_PATTERNS[k], u, now) \o DateCandidatesFrom(u, now, k + 1)

\* 3) the date candidates, in the order the patterns find them
DateCandidates(u, now) == DateCandidatesFrom(u, now, 1)

\* a faulty variant of MinDate: the first candidate instead of the earliest
FirstDate(ds, n) == ds[1]

RECURSIVE MinDate(_, _)
\* the least of the first n dates of ds, n >= 1
MinDate(ds, n) ==
  IF n = 1 THEN ds[1]
  ELSE LET m == MinDate(ds, n - 1)
       IN  IF DateLess(ds[n], m) THEN ds[n] ELSE m

\* a faulty variant of ChooseDate: an empty text instead of None
DateOrEmpty(ds) == IF ds # <<>> THEN Some(IsoFormat(MinDate(ds, Len(ds)))) ELSE Some(<<>>)

\* sorted(date_candidates)[0].isoformat(), or None without a candidate
ChooseDate(ds) == IF ds # <<>> THEN Some(IsoFormat(MinDate(ds, Len(ds)))) ELSE None

\* the candidate (tag, val, pos) when the amount parsed
Candidate(tag, val, pos) ==
  IF val.some THEN Some([tag |-> tag, val |-> val.v, pos |-> pos]) ELSE None

KeywordOfMatches(ms, u) ==
  Present([i \in 1..Len(ms) |->
             Candidate("keyword", CleanMoney(Group(u, ms[i], 2)), ms[i].start - 1)])

\* the candidates of one labeled-total pattern: ('keyword', val, m.start())
KeywordOfPattern(pat, u) == KeywordOfMatches(ReFindIter(pat, u), u)

RECURSIVE KeywordCandidatesFrom(_, _)
KeywordCandidatesFrom(u, k) ==
  IF k > Len(TOTAL_PATTERNS) THEN <<>>
  ELSE KeywordOfPattern(TOTAL_PATTERNS[k], u) \o KeywordCandidatesFrom(u, k + 1)

\* the keyword tier
KeywordCandidates(u) == KeywordCandidatesFrom(u, 1)

\* str.find(w): the offset of the first occurrence, -1 without one
Find(s, w) ==
  IF Contains(s, w)
  THEN (CHOOSE i \in 1..Len(s) : At(s, i, w) /\ \A j \in 1..(i - 1) : ~At(s, j, w)) - 1
  ELSE 0 - 1

\* the fallback tier: ('any', v, up.find(s)) for every monetary number
FallbackOfMatches(ms, u) ==
  Present([i \in 1..Len(ms) |->
             Candidate("any", CleanMoney(Group(u, ms[i], 1)), Find(u, Group(u, ms[i], 1)))])

FallbackCandidates(u) == FallbackOfMatches(ReFindIter(MONEY_PAIR_RE, u), u)

\* the keyword candidates kw, or the fallback tier when there is none
OrFallback(kw, u) == IF kw = <<>> THEN FallbackCandidates(u) ELSE kw

\* a faulty variant of TotalCandidates: both tiers are always collected
BothTiers(u) == KeywordCandidates(u) \o FallbackCandidates(u)

\* 4) the total candidates: the fallback tier only when the keyword tier is
\* empty
TotalCandidates(u) == OrFallback(KeywordCandidates(u), u)

TagRank(c) == IF c.tag = "keyword" THEN 0 ELSE 1

\* the key (0 if keyword else 1, value) of a is below that of b
KeyLess(a, b) ==
  \/ TagRank(a) < TagRank(b)
  \/ TagRank(a) = TagRank(b) /\ FloatLess(a.val, b.val)

\* a faulty variant of MaxByKey: the first candidate instead of the greatest
FirstByKey(cs, n) == cs[1]

RECURSIVE MaxByKey(_, _)
\* max(cs, key=...) over the first n elements: the first of the greatest
MaxByKey(cs, n) ==
  IF n = 1 THEN cs[1]
  ELSE LET m == MaxByKey(cs, n - 1)
       IN  IF KeyLess(m, cs[n]) THEN cs[n] ELSE m

\* the chosen total: the greatest keyword candidate, else the greatest
\* candidate
ChooseTotal(cs) ==
  IF cs # <<>>
  THEN LET kw == SelectSeq(cs, LAMBDA c : c.tag = "keyword")
           pool == IF kw # <<>> THEN kw ELSE cs
       IN  Some(MaxByKey(pool, Len(pool)).val)
  ELSE None

\* the amounts of one tax-label pattern
GstOfMatches(ms, u) == Present([i \in 1..Len(ms) |-> CleanMoney(Group(u, ms[i], 2))])

GstOfPattern(pat, u) == GstOfMatches(ReFindIter(pat, u), u)

RECURSIVE GstAmountsFrom(_, _)
GstAmountsFrom(u, k) ==
  IF k > Len(GST_LINE_PATTERNS) THEN <<>>
  ELSE GstOfPattern(GST_LINE_PATTERNS[k], u) \o GstAmountsFrom(u, k + 1)

\* 5) the tax amounts of every occurrence of the three tax-label patterns
GstAmounts(u) == GstAmountsFrom(u, 1)

RECURSIVE FloatSum(_, _)
\* sum of the first n floats of vs
FloatSum(vs, n) == IF n = 0 THEN Canon(FALSE, <<>>, <<>>) ELSE FloatAdd(FloatSum(vs, n - 1), vs[n])


\* the second search takes an amount that does not parse for 0
TotalTaxOrZero(m, u) == IF m.ok THEN Some(Num(Chars("0"), <<>>)) ELSE None
\* the amount of the match m of the "total tax" search
TotalTaxOf(m, u) == IF m.ok THEN CleanMoney(Group(u, m, 2)) ELSE None

\* a faulty variant of ChooseGst: the first amount instead of the sum
FirstGst(amounts, u) == IF amounts # <<>> THEN Some(amounts[1]) ELSE None

\* the reported tax: the sum of the amounts, else the second "total tax"
\* search
ChooseGst(amounts, u) ==
  IF amounts # <<>> THEN Some(FloatSum(amounts, Len(amounts)))
  ELSE TotalTaxOf(ReSearch(TOTAL_TAX_RE, u), u)

\* the closing length check on the supplier: '' is falsy and is kept
FinalSupplier(s) ==
  IF s.some /\ s.v # <<>> /\ Len(s.v) < 3 THEN None ELSE s

---------------------------------------------------------------------------
(* The steps of one call of extract_fields(raw).                           *)
Normalize ==
  /\ pc = "start"
  /\ up' = Upper(NormText(raw))
  /\ lines' = StrippedLines(up')
  /\ out' = NoFields
  /\ pc' = "supplier"
  /\ UNCHANGED <<raw, today, date_candidates, total_candidates, gst_amounts>>
  /\ UNCHANGED outside

Supplier ==
  /\ pc = "supplier"
  /\ out' = [out EXCEPT !.supplier = SupplierOf(lines)]
  /\ pc' = "invoice"
  /\ UNCHANGED <<raw, today, up, lines, date_candidates, total_candidates, gst_amounts>>
  /\ UNCHANGED outside

InvoiceNumber ==
  /\ pc = "invoice"
  /\ out' = [out EXCEPT !.invoice_number = InvoiceNumberOf(up)]
  /\ pc' = "date"
  /\ UNCHANGED <<raw, today, up, lines, date_candidates, total_candidates, gst_amounts>>
  /\ UNCHANGED outside

Dates ==
  /\ pc = "date"
  /\ date_candidates' = DateCandidates(up, today)
  /\ out' = [out EXCEPT !.date = ChooseDate(date_candidates')]
  /\ pc' = "total"
  /\ UNCHANGED <<raw, today, up, lines, total_candidates, gst_amounts>>
  /\ UNCHANGED outside

Totals ==
  /\ pc = "total"
  /\ total_candidates' = TotalCandidates(up)
  /\ out' = [out EXCEPT !.total = ChooseTotal(total_candidates')]
  /\ pc' = "gst"
  /\ UNCHANGED <<raw, today, up, lines, date_candidates, gst_amounts>>
  /\ UNCHANGED outside

Gst ==
  /\ pc = "gst"
  /\ gst_amounts' = GstAmounts(up)
  /\ out' = [out EXCEPT !.gst = ChooseGst(gst_amounts', up)]
  /\ pc' = "finish"
  /\ UNCHANGED <<raw, today, up, lines, date_candidates, total_candidates>>
  /\ UNCHANGED outside

Finish ==
  /\ pc = "finish"
  /\ out' = [out EXCEPT !.supplier = FinalSupplier(out.supplier)]
  /\ pc' = "done"
  /\ UNCHANGED <<raw, today, up, lines, date_candidates, total_candidates, gst_amounts>>
  /\ UNCHANGED outside

Next == Normalize \/ Supplier \/ InvoiceNumber \/ Dates \/ Totals \/ Gst \/ Finish

\* the parts of the state at rest
ExtractIdle ==
  /\ raw = <<>>
  /\ pc = "done"
  /\ up = <<>>
  /\ lines = <<>>
  /\ out = NoFields
  /\ date_candidates = <<>>
  /\ total_candidates = <<>>
  /\ gst_amounts = <<>>
CallsIdle == calls = <<>>
MoneyIdle == money = [pc |-> "idle"]
ParserIdle == parser = [pc |-> "idle"]
SheetsIdle == sheets = [pc |-> "idle"]
GsheetIdle == gsheet = [pc |-> "idle"]
RetryqIdle == retryq = [pc |-> "idle"]
WorkerIdle == worker = [pc |-> "idle"]
NormIdle == norm = [pc |-> "idle"]
RouterIdle == router = [pc |-> "idle"]

\* every part of the state but the part g is at rest
IdleBut(g) ==
  /\ IF g = "extract" THEN TRUE ELSE ExtractIdle
  /\ IF g = "calls" THEN TRUE ELSE CallsIdle
  /\ IF g = "money" THEN TRUE ELSE MoneyIdle
  /\ IF g = "parser" THEN TRUE ELSE ParserIdle
  /\ IF g = "sheets" THEN TRUE ELSE SheetsIdle
  /\ IF g = "gsheet" THEN TRUE ELSE GsheetIdle
  /\ IF g = "retryq" THEN TRUE ELSE RetryqIdle
  /\ IF g = "worker" THEN TRUE ELSE WorkerIdle
  /\ IF g = "norm" THEN TRUE ELSE NormIdle
  /\ IF g = "router" THEN TRUE ELSE RouterIdle

\* nothing runs outside the call
OutsideIdle == IdleBut("extract")

\* the state before the call: the text and the clock are the inputs
InitWith(docs, days) ==
  /\ raw \in docs
  /\ today \in days
  /\ pc = "start"
  /\ up = <<>>
  /\ lines = <<>>
  /\ out = NoFields
  /\ date_candidates = <<>>
  /\ total_candidates = <<>>
  /\ gst_amounts = <<>>
  /\ OutsideIdle

---------------------------------------------------------------------------
(* The inputs: documents put together from the lines invoices carry, and   *)
(* the clock of the run.                                                   *)
(***************************************************************************)
\* the most fragments joined into one document
MaxFrags == 3

\* the length of a digit run beyond the range of a double
BigDigits == 310

RECURSIVE DocsOf(_, _, _)
\* the documents of 1 to n fragments of F joined by separators of S
DocsOf(F, S, n) ==
  IF n = 0 THEN {}
  ELSE IF n = 1 THEN F
  ELSE LET shorter == DocsOf(F, S, n - 1)
       IN  shorter \cup {d \o s \o f : d \in shorter, s \in S, f \in F}

SameLine == Chars(" ")
NextLine == <<NL>>

\* the example invoices of src/tests/test_parser_examples.py
Example1 ==
  Chars("SLEEK BILL\nBill No: IN-15    Date: 23 - Jan - 2025\nOrange Powder 1 400.00 448.00\nSubtotal 900.00\nIGST at 12% 60.00\nTOTAL 968.00")
Example2 ==
  (Chars("GUJARAT FREIGHT TOOLS\nGSTIN: 27CORPP3939N1ZQ TAX INVOICE\nInvoice No. GST-3525-26 Invoice Date 23-Jul-2025\nTotal Amount After Tax ") \o <<RUPEE>> \o Chars("4,490.00\nTaxable Amount 3,805.00\nTotal Tax 684.90"))
Example3 ==
  Chars("Invoice\nKantech Solutions Private Limited\nInvoice date 30/06/2017\nInvoice number 4\nTotal 1,57,500.00\nCGST 16,250.00\nSGST 16,250.00")

\* the literal scenarios of the specification
Scenario1 ==
  Chars("Bill No: IN-15  Date: 23-Jan-2025\nSubtotal 900.00\nIGST at 12% 60.00\nTOTAL 968.00")
Scenario2 ==
  (Chars("GSTIN: 27CORPP3939N1ZQ TAX INVOICE\nInvoice No. GST-3525-26 Invoice Date 23-Jul-2025\nTotal Amount After Tax ") \o <<RUPEE>> \o Chars("4,490.00\nTaxable Amount 3,805.00\nTotal Tax 684.90"))
Scenario3 ==
  Chars("Total 1,57,500.00\nCGST 16,250.00\nSGST 16,250.00")

ExampleDocs == {Example1, Example2, Example3, Scenario1, Scenario2, Scenario3}

\* the day of the run
Today == Ymd(2026, 11, 2)
\* a run on the last day of a long month
MonthEnd == Ymd(2031, 1, 31)

\* labeled totals, an unlabeled number and a word
TotalFrags == {Chars("Total: 500"), Chars("999"), Chars("items"), Chars("Amount Due 75.50")}
TotalDocs == DocsOf(TotalFrags, {SameLine, NextLine}, MaxFrags)

\* one grand-total line among smaller labeled amounts, item lines and tax
\* lines, every line of the shape of the example invoices
GrandTotalLines ==
  { [text |-> Chars("TOTAL 968.00"), amount |-> Num(Chars("968"), <<>>)],
    [text |-> (Chars("Total Amount After Tax ") \o <<RUPEE>> \o Chars("4,490.00")), amount |-> Num(Chars("4490"), <<>>)],
    [text |-> Chars("Total 1,57,500.00"), amount |-> Num(Chars("157500"), <<>>)] }
SmallerLines ==
  { [text |-> Chars("Subtotal 900.00"), amount |-> Num(Chars("900"), <<>>)],
    [text |-> Chars("Taxable Amount 3,805.00"), amount |-> Num(Chars("3805"), <<>>)] }
OtherLines == {l.text : l \in SmallerLines} \cup {Chars("2 Orange Powder 400.00"), Chars("CGST 16,250.00"), Chars("Total Tax 684.90")}
\* the lines around the grand-total line: at most MaxFrags - 1 in all
LinesAround ==
  {<<>>} \cup UNION {[1..n -> OtherLines] : n \in 1..(MaxFrags - 1)}
GrandTotalDocs ==
  { Join(SubSeq(ls, 1, k) \o <<g.text>> \o SubSeq(ls, k + 1, Len(ls)), NextLine) :
      <<g, ls, k>> \in { t \in GrandTotalLines \X LinesAround \X (0..(MaxFrags - 1)) :
                          t[3] <= Len(t[2]) /\ \A l \in SmallerLines :
                            (\E i \in 1..Len(t[2]) : t[2][i] = l.text)
                              => FloatLess(l.amount, t[1].amount) } }

\* tax lines, a total line and a name
GstFrags == {Chars("CGST 16,250.00"), Chars("SGST 16,250.00"), Chars("IGST at 12% 60.00"), Chars("Total Tax 684.90"),
             Chars("Total 1,57,500.00"), Chars("Kantech Solutions")}
GstDocs == DocsOf(GstFrags, {NextLine}, MaxFrags)

\* dates in the written forms of invoices, one impossible date, one
\* misspelt month
DateFrags == {Chars("30/06/2017"), Chars("2017-06-05"), Chars("23 Jul 2025"), Chars("31/02/2025"), Chars("1/2/03"), Chars("JUNX 04, 2025")}
\* dates written with hyphens around the month name
TieBreakDoc == Chars("Invoice Date 23-Jul-2025\nDue Date 23-Aug-2025")
HyphenDocs == {TieBreakDoc, Chars("Date: 23-Jan-2025"), Chars("Invoice Date 23-Jul-2025")}
DateDocs == DocsOf(DateFrags, {SameLine, NextLine}, MaxFrags) \cup HyphenDocs
\* the documents also read on MonthEnd
ClockDocs == DocsOf(DateFrags, {SameLine, NextLine}, 1) \cup HyphenDocs

\* titles and invoice-number labels
InvoiceFrags == {Chars("TAX INVOICE"), Chars("Invoice No. GST-3525-26"), Chars("Invoice No: A-77"), Chars("Bill No: IN-15"),
                 Chars("Acme Traders")}
InvoiceDocs == DocsOf(InvoiceFrags, {SameLine, NextLine}, MaxFrags)

\* names, a heading and a GSTIN line
SupplierFrags == {Chars("Acme Traders"), Chars("Ab"), Chars("INVOICE"), Chars("GSTIN: 27ABCDE1234F1Z5")}
SupplierDocs == DocsOf(SupplierFrags, {SameLine, NextLine}, MaxFrags)

\* tax lines without an amount that parses, next to one with an amount
TaxFrags == {Chars("Total Tax: -"), Chars("Total Tax ."), Chars("TOTALTAX,"), Chars("Total Tax 684.90"), Chars("Tax N/A"), Chars("CGST nil")}
TaxDocs == DocsOf(TaxFrags, {NextLine}, MaxFrags)

\* documents without a heading: names, ordinary words of 12 letters and
\* more, a telephone number and a GSTIN line
WordFrags == {Chars("Acme Traders"), Chars("Registration 5"), Chars("Phone 98765 43210"), Chars("GSTIN: 27ABCDE1234F1Z5")}
WordDocs == DocsOf(WordFrags, {NextLine}, MaxFrags)

\* labeled amounts within and beyond the range of a double
AmountLabels == {Chars("Amount "), Chars("Total: "), Chars("CGST "), Chars("Total Tax ")}
AmountTexts == {Chars("0"), Chars("75.50"), Chars("-5"), Chars("1,200"), [i \in 1..BigDigits |-> "9"],
                [i \in 1..BigDigits |-> "9"] \o Chars(".0")}
RangeDocs == {l \o a : l \in AmountLabels, a \in AmountTexts}

InitTotal == InitWith(TotalDocs, {Today})
InitGrandTotal == InitWith(GrandTotalDocs \cup ExampleDocs, {Today})
InitGst == InitWith(GstDocs \cup ExampleDocs, {Today})
InitDate == InitWith(DateDocs \cup ExampleDocs, {Today}) \/ InitWith(ClockDocs, {MonthEnd})
InitInvoice == InitWith(InvoiceDocs \cup ExampleDocs, {Today})
InitSupplier == InitWith(SupplierDocs \cup ExampleDocs, {Today})
InitRange == InitWith(RangeDocs, {Today})
InitWords == InitWith(WordDocs, {Today})
InitTax == InitWith(TaxDocs, {Today})

AllDocs == TotalDocs \cup GrandTotalDocs \cup GstDocs \cup DateDocs \cup InvoiceDocs
             \cup SupplierDocs \cup RangeDocs \cup ExampleDocs

Init == InitWith(AllDocs, {Today})

Spec == Init /\ [][Next]_vars
SpecTotal == InitTotal /\ [][Next]_vars
SpecGrandTotal == InitGrandTotal /\ [][Next]_vars
SpecGst == InitGst /\ [][Next]_vars
SpecDate == InitDate /\ [][Next]_vars
SpecInvoice == InitInvoice /\ [][Next]_vars
SpecSupplier == InitSupplier /\ [][Next]_vars
SpecRange == InitRange /\ [][Next]_vars
SpecWords == InitWords /\ [][Next]_vars
SpecTax == InitTax /\ [][Next]_vars

---------------------------------------------------------------------------
(* Calls of extract_fields side by side: every call has its own locals     *)
(* (a frame); the patterns are constants and the clock is read, never      *)
(* written.                                                                *)
(***************************************************************************)
\* the calls that run side by side
MaxCalls == 2

\* the locals of a call of extract_fields(r) before its first statement
NewCall(r) ==
  [raw |-> r, pc |-> "start", up |-> <<>>, lines |-> <<>>, out |-> NoFields,
   date_candidates |-> <<>>, total_candidates |-> <<>>, gst_amounts |-> <<>>,
   now |-> None]

\* the frame f after _norm_text, upper() and the line split
WithText(f, u) ==
  [f EXCEPT !.up = u, !.lines = StrippedLines(u), !.out = NoFields, !.pc = "supplier"]

\* a faulty variant of WithDates: the candidates are kept in one list of
\* the module, so the matches of the other calls are in it
WithSharedDates(f, ds, now) ==
  [f EXCEPT !.date_candidates = ds,
            !.out.date = ChooseDate(Flatten([c \in 1..Len(calls) |-> calls[c].date_candidates])
                                      \o ds),
            !.now = Some(now), !.pc = "total"]

\* the frame f after the date section found the candidates ds on the day now
WithDates(f, ds, now) ==
  [f EXCEPT !.date_candidates = ds, !.out.date = ChooseDate(ds), !.now = Some(now),
            !.pc = "total"]

WithTotals(f, cs) ==
  [f EXCEPT !.total_candidates = cs, !.out.total = ChooseTotal(cs), !.pc = "gst"]

WithGst(f, amounts) ==
  [f EXCEPT !.gst_amounts = amounts, !.out.gst = ChooseGst(amounts, f.up), !.pc = "finish"]

\* the next section of extract_fields on the frame f, on the day now
StepOf(f, now) ==
  CASE f.pc = "start" -> WithText(f, Upper(NormText(f.raw)))
    [] f.pc = "supplier" -> [f EXCEPT !.out.supplier = SupplierOf(f.lines), !.pc = "invoice"]
    [] f.pc = "invoice" -> [f EXCEPT !.out.invoice_number = InvoiceNumberOf(f.up), !.pc = "date"]
    [] f.pc = "date" -> WithDates(f, DateCandidates(f.up, now), now)
    [] f.pc = "total" -> WithTotals(f, TotalCandidates(f.up))
    [] f.pc = "gst" -> WithGst(f, GstAmounts(f.up))
    [] f.pc = "finish" -> [f EXCEPT !.out.supplier = FinalSupplier(f.out.supplier), !.pc = "done"]

RECURSIVE RunAlone(_, _, _)
\* the frame of a call that runs alone from the frame f to the position p,
\* on the day now
RunAlone(f, now, p) == IF f.pc = p THEN f ELSE RunAlone(StepOf(f, now), now, p)

\* extract_fields(raw_text) as one call, on the day now
ExtractFields(raw_text, now) == RunAlone(NewCall(raw_text), now, "done").out

\* the call c runs its next section
CallStep(c) ==
  /\ calls[c].pc # "done"
  /\ calls' = [calls EXCEPT ![c] = StepOf(calls[c], today)]
  /\ UNCHANGED extraction
  /\ UNCHANGED butCalls

\* midnight passes: the clock of the machine shows a later day
Tick ==
  /\ today = Today
  /\ today' = MonthEnd
  /\ UNCHANGED <<raw, pc, up, lines, out, date_candidates, total_candidates, gst_amounts>>
  /\ UNCHANGED outside

NextCalls == (\E c \in 1..MaxCalls : CallStep(c)) \/ Tick

\* the texts of the calls: a date with a misread month name, a labeled
\* total, a date in figures, a tax line
CallDocs == {Chars("JUNX 04, 2025"), Chars("Total: 500"), Chars("30/06/2017 CGST 16,250.00")}

InitCalls ==
  /\ IdleBut("calls")
  /\ today = Today
  /\ calls \in [1..MaxCalls -> {NewCall(d) : d \in CallDocs}]

SpecCalls == InitCalls /\ [][NextCalls]_vars

---------------------------------------------------------------------------
(* One call of _clean_money(s).                                            *)
(***************************************************************************)
\* _clean_money(s) runs and returns
CleanMoneyCall ==
  /\ money.pc = "call"
  /\ money' = [money EXCEPT !.pc = "returned", !.val = CleanMoney(money.s)]
  /\ UNCHANGED extraction
  /\ UNCHANGED butMoney

NextMoney == CleanMoneyCall

\* amounts as invoices write them and texts without a digit, behind the
\* currency markers
MoneyMarks == {<<>>, <<RUPEE>>, Chars("Rs. "), Chars("Rs"), Chars("INR"), Chars("INR "), Chars(" ")}
MoneyBodies == {Chars("4,490.00"), Chars("4490"), Chars("4490.00"), <<>>, <<EMDASH>>, Chars("-"), Chars("."), Chars(","), Chars("N/A"), Chars("nil"),
                Chars("0"), Chars("0.00")}
MoneyTexts == {m \o b : m \in MoneyMarks, b \in MoneyBodies}

InitMoney ==
  /\ IdleBut("money")
  /\ today = Today
  /\ \E s \in MoneyTexts : money = [pc |-> "call", s |-> s, val |-> None]

SpecMoney == InitMoney /\ [][NextMoney]_vars

---------------------------------------------------------------------------
(* The run of parser.py: the module body, parse_file and main.             *)
(*                                                                         *)
(* The def statement of main ends with the call of parse_file (line 394):  *)
(* the statements from line 396 on stand at column 0 and belong to the     *)
(* module body, where the name parsed is not bound; the lines 411-421 are  *)
(* the body of the with statement of line 406.                             *)
(***************************************************************************)
\* the stems of the files of data/ocr, in sorted order
Stems == <<"inv1", "inv2">>
StemSet == {Stems[i] : i \in 1..Len(Stems)}

\* a parsed JSON written by an earlier run
OldJson == [file |-> "earlier"]

\* str.rstrip()
RStrip(s) == SubSeq(s, 1, RunStart(s, Len(s), Space) - 1)

\* '\n'.join([ln.rstrip() for ln in raw.splitlines() if ln.strip()])
RawNorm(raw_text) ==
  LET kept == SelectSeq(SplitLines(raw_text), LAMBDA ln : Strip(ln) # <<>>)
  IN  Join([i \in 1..Len(kept) |-> RStrip(kept[i])], <<NL>>)

\* the record parse_file builds from the fields
ParsedOf(name, fields, raw_text) ==
  [file |-> name,
   invoice_number |-> fields.invoice_number,
   date |-> fields.date,
   supplier |-> fields.supplier,
   total |-> fields.total,
   gst |-> fields.gst,
   raw_text |-> RawNorm(raw_text)]

\* parse_file(path) for the file stem.txt with the text raw_text
ParseFile(stem, raw_text, now) ==
  ParsedOf(<<stem, ".txt">>, ExtractFields(raw_text, now), raw_text)

\* python parser.py: the module body runs, main is defined, then line 397
\* reads the unbound name parsed and raises NameError; the lines after it,
\* the call of main among them, never run
LoadModule ==
  /\ parser.pc = "load"
  /\ parser' = [parser EXCEPT !.pc = "name_error"]
  /\ UNCHANGED extraction
  /\ UNCHANGED butParser

\* sorted(OCR_DIR.glob('*.txt'))
TxtFiles == SelectSeq(Stems, LAMBDA t : t \in DOMAIN parser.ocr_dir)

\* main(force), as the def statement of line 380 defines it, is called and
\* finds no file
MainNoFiles ==
  /\ parser.pc = "call"
  /\ TxtFiles = <<>>
  /\ parser' = [parser EXCEPT !.pc = "returned"]
  /\ UNCHANGED extraction
  /\ UNCHANGED butParser

\* main(force) is called and enters its loop
MainCall ==
  /\ parser.pc = "call"
  /\ TxtFiles # <<>>
  /\ parser' = [parser EXCEPT !.pc = "loop", !.txt_files = TxtFiles, !.i = 1]
  /\ UNCHANGED extraction
  /\ UNCHANGED butParser

\* out_file.exists() and not force
AlreadyParsed == parser.txt_files[parser.i] \in DOMAIN parser.parsed_dir /\ ~parser.force

\* the loop skips a file that has a parsed JSON
MainSkip ==
  /\ parser.pc = "loop"
  /\ parser.i <= Len(parser.txt_files)
  /\ AlreadyParsed
  /\ parser' = [parser EXCEPT !.i = parser.i + 1]
  /\ UNCHANGED extraction
  /\ UNCHANGED butParser

\* the loop parses a file: the record is bound to the local parsed, and the
\* body of the loop ends there
MainParse ==
  /\ parser.pc = "loop"
  /\ parser.i <= Len(parser.txt_files)
  /\ ~AlreadyParsed
  /\ parser' = [parser EXCEPT
                  !.parsed = Some(ParseFile(parser.txt_files[parser.i],
                                            parser.ocr_dir[parser.txt_files[parser.i]], today)),
                  !.i = parser.i + 1]
  /\ UNCHANGED extraction
  /\ UNCHANGED butParser

\* the loop is over and main returns
MainReturn ==
  /\ parser.pc = "loop"
  /\ parser.i > Len(parser.txt_files)
  /\ parser' = [parser EXCEPT !.pc = "returned"]
  /\ UNCHANGED extraction
  /\ UNCHANGED butParser

NextParser == LoadModule \/ MainNoFiles \/ MainCall \/ MainSkip \/ MainParse \/ MainReturn

\* OCR texts: with a blank line and blanks at the end of a line, with a
\* newline at the end, and of one line
OcrTexts == {Chars("Acme Traders  \n\nInvoice No: A-77\nTotal: 500"), Chars("Bill No: IN-15\n"), Chars("Total: 500")}

\* the functions from a subset of S to T
PartialFunctions(S, T) == UNION {[D -> T] : D \in SUBSET S}

\* the run starts as the script (python parser.py) or at a call of main
InitParser ==
  /\ IdleBut("parser")
  /\ today = Today
  /\ \E start \in {"load", "call"}, force \in BOOLEAN, ocr \in PartialFunctions(StemSet, OcrTexts),
        json \in PartialFunctions(StemSet, {OldJson}) :
       parser = [pc |-> start, force |-> force, ocr_dir |-> ocr, parsed_dir |-> json,
                 failure_dir |-> {}, txt_files |-> <<>>, i |-> 0, parsed |-> None]

SpecParser == InitParser /\ [][NextParser]_vars

---------------------------------------------------------------------------
(* append_invoice_row of sheets.py and of sheets_runtime.py: the two       *)
(* functions differ in their log lines only.  The outcome of a request to  *)
(* the Sheets API is the environment's choice.                             *)
(***************************************************************************)
\* the largest value of the argument retry
MaxRetry == 3
\* the calls of the function during one life of the module
MaxAppends == 2

\* if attempt >= retry: raise
GiveUpLater(attempt, retry) == attempt > retry
GiveUp(attempt, retry) == attempt >= retry

\* a call of append_invoice_row(parsed, sheet_id, retry) begins
AppendCall ==
  /\ sheets.pc \in {"ready", "returned", "raised"}
  /\ sheets.n < MaxAppends
  /\ \E id \in {"", "sheetA"}, r \in 0..MaxRetry :
       sheets' = [sheets EXCEPT !.pc = "call", !.sheet_id = id, !.retry = r,
                                !.attempt = 0, !.log = <<>>, !.error = "none",
                                !.n = sheets.n + 1]
  /\ UNCHANGED extraction
  /\ UNCHANGED butSheets

\* if not sheet_id: raise ValueError
AppendNoSheet ==
  /\ sheets.pc = "call"
  /\ sheets.sheet_id = ""
  /\ sheets' = [sheets EXCEPT !.pc = "raised", !.error = "ValueError"]
  /\ UNCHANGED extraction
  /\ UNCHANGED butSheets

\* svc = _get_service(): the service is built by the first call and kept;
\* the row is built; attempt = 0
AppendPrepare ==
  /\ sheets.pc = "call"
  /\ sheets.sheet_id # ""
  /\ sheets' = [sheets EXCEPT !.pc = "loop", !.service = TRUE,
                              !.built = sheets.built + (IF sheets.service THEN 0 ELSE 1)]
  /\ UNCHANGED extraction
  /\ UNCHANGED butSheets

\* the state after the request of the attempt a had the outcome ok
AfterRequest(s, a, ok) ==
  IF ok THEN [s EXCEPT !.pc = "returned", !.attempt = a, !.log = Append(s.log, "ok"),
                       !.rows = s.rows + 1]
  ELSE IF GiveUp(a, s.retry)
       THEN [s EXCEPT !.pc = "raised", !.attempt = a, !.log = Append(s.log, "fail"),
                      !.error = "append"]
       ELSE [s EXCEPT !.pc = "sleep", !.attempt = a, !.log = Append(s.log, "fail")]

\* one pass of the loop: attempt += 1, the request, and on success return
\* True, on an exception raise it or go to sleep
AppendAttempt ==
  /\ sheets.pc = "loop"
  /\ \E ok \in BOOLEAN : sheets' = AfterRequest(sheets, sheets.attempt + 1, ok)
  /\ UNCHANGED extraction
  /\ UNCHANGED butSheets

\* time.sleep(...) is over
AppendWake ==
  /\ sheets.pc = "sleep"
  /\ sheets' = [sheets EXCEPT !.pc = "loop"]
  /\ UNCHANGED extraction
  /\ UNCHANGED butSheets

NextSheets == AppendCall \/ AppendNoSheet \/ AppendPrepare \/ AppendAttempt \/ AppendWake

\* the module is imported: no service, no call, an empty sheet
InitSheets ==
  /\ IdleBut("sheets")
  /\ today = Today
  /\ \E m \in {"sheets", "sheets_runtime"} :
       sheets = [pc |-> "ready", module |-> m, service |-> FALSE, built |-> 0,
                 sheet_id |-> "", retry |-> 0, attempt |-> 0, log |-> <<>>,
                 error |-> "none", rows |-> 0, n |-> 0]

SpecSheets == InitSheets /\ [][NextSheets]_vars

---------------------------------------------------------------------------
(* append_to_google_sheet of parser.py.  The sheet is the sequence of the  *)
(* values of its column B (file), one per row; whether a request to the    *)
(* sheet succeeds is the environment's choice.                             *)
(***************************************************************************)
\* the callers of append_to_google_sheet that run side by side
MaxWriters == 2
\* the calls one caller makes
MaxWrites == 2

\* column B of the header row
HEADER_FILE == "file"
FileNames == {"inv1.txt", "inv2.txt"}

\* the sheet after _get_sheet_and_ensure_header, which has read values
EnsureHeader(rows, values) ==
  IF values = <<>> THEN Append(rows, HEADER_FILE)
  ELSE IF values[1] # HEADER_FILE THEN <<HEADER_FILE>> \o rows
  ELSE rows

\* parsed.get("file") in all_vals and not _force_append
IsDuplicate(force, file, all_vals) == ~force /\ \E i \in 1..Len(all_vals) : all_vals[i] = file

\* the writer w with its call changed to c
WithWriter(w, c) == [gsheet EXCEPT !.writers[w] = c]

\* the writer w calls append_to_google_sheet(parsed) for a file
GsCall(w) ==
  /\ gsheet.pc = "run"
  /\ gsheet.writers[w].pc \in {"ready", "returned"}
  /\ gsheet.writers[w].n < MaxWrites
  /\ \E f \in FileNames :
       gsheet' = WithWriter(w, [pc |-> "call", file |-> f, result |-> "none",
                                present |-> IsDuplicate(FALSE, f, gsheet.rows),
                                appended |-> 0,
                                n |-> gsheet.writers[w].n + 1])
  /\ UNCHANGED extraction
  /\ UNCHANGED butGsheet

\* the sheet is opened and its header ensured; an exception returns False
GsOpen(w) ==
  /\ gsheet.pc = "run"
  /\ gsheet.writers[w].pc = "call"
  /\ \E opened \in BOOLEAN, readable \in BOOLEAN :
       gsheet' =
         IF opened
         THEN [WithWriter(w, [gsheet.writers[w] EXCEPT !.pc = "opened"]) EXCEPT
                 !.rows = EnsureHeader(gsheet.rows, IF readable THEN gsheet.rows ELSE <<>>)]
         ELSE WithWriter(w, [gsheet.writers[w] EXCEPT !.pc = "returned", !.result = "False"])
  /\ UNCHANGED extraction
  /\ UNCHANGED butGsheet

\* the duplicate check: column B is read; a duplicate returns True; an
\* exception of the read is passed over
GsCheck(w) ==
  /\ gsheet.pc = "run"
  /\ gsheet.writers[w].pc = "opened"
  /\ \E readable \in BOOLEAN :
       gsheet' =
         IF readable /\ IsDuplicate(gsheet.force, gsheet.writers[w].file, gsheet.rows)
         THEN WithWriter(w, [gsheet.writers[w] EXCEPT !.pc = "returned", !.result = "True"])
         ELSE WithWriter(w, [gsheet.writers[w] EXCEPT !.pc = "row"])
  /\ UNCHANGED extraction
  /\ UNCHANGED butGsheet

\* the row is built and appended: True, or False on an exception
GsAppend(w) ==
  /\ gsheet.pc = "run"
  /\ gsheet.writers[w].pc = "row"
  /\ \E appended \in BOOLEAN :
       gsheet' =
         IF appended
         THEN [WithWriter(w, [gsheet.writers[w] EXCEPT !.pc = "returned", !.result = "True",
                                                       !.appended = 1]) EXCEPT
                 !.rows = Append(gsheet.rows, gsheet.writers[w].file)]
         ELSE WithWriter(w, [gsheet.writers[w] EXCEPT !.pc = "returned", !.result = "False"])
  /\ UNCHANGED extraction
  /\ UNCHANGED butGsheet

NextGsheet == \E w \in 1..MaxWriters : GsCall(w) \/ GsOpen(w) \/ GsCheck(w) \/ GsAppend(w)

\* an empty sheet, a sheet with its header, and a sheet with a row
InitGsheet ==
  /\ IdleBut("gsheet")
  /\ today = Today
  /\ \E force \in BOOLEAN, rows \in {<<>>, <<HEADER_FILE>>, <<HEADER_FILE, "inv1.txt">>} :
       gsheet = [pc |-> "run", force |-> force, rows |-> rows,
                 writers |-> [w \in 1..MaxWriters |-> [pc |-> "ready", n |-> 0]]]

SpecGsheet == InitGsheet /\ [][NextGsheet]_vars

---------------------------------------------------------------------------
(* retry_failed.py: the module body, main_once and try_append_file.        *)
(*                                                                         *)
(* What append_invoice_row(parsed) does (it returns True, returns False    *)
(* for a duplicate, or raises) and whether a move of a file succeeds are   *)
(* the environment's choice.                                               *)
(***************************************************************************)
\* the largest value of MAX_ATTEMPTS
MaxAttempts == 2
\* the scans of main_once
MaxScans == 2

\* the JSON files of data/failed_appends, in sorted order
Queued == <<"a.json", "b.json">>
QueuedSet == {Queued[i] : i \in 1..Len(Queued)}

\* import retry_failed: line 18 imports mark_appended from sheets, which
\* sheets.py does not define, and raises ImportError
RetryLoad ==
  /\ retryq.pc = "load"
  /\ retryq' = [retryq EXCEPT !.pc = "import_error"]
  /\ UNCHANGED extraction
  /\ UNCHANGED butRetryq

\* sorted([p for p in FAILED_DIR.glob("*.json") if p.is_file()])
ListFailedFiles == SelectSeq(Queued, LAMBDA p : p \in retryq.failed)

\* main_once, as line 103 defines it, is called and lists the files
MainOnce ==
  /\ retryq.pc \in {"call", "scanned"}
  /\ retryq.scans < MaxScans
  /\ retryq' = [retryq EXCEPT !.pc = IF ListFailedFiles = <<>> THEN "scanned" ELSE "file",
                              !.files = ListFailedFiles, !.i = 1, !.attempt = 0,
                              !.scans = retryq.scans + 1]
  /\ UNCHANGED extraction
  /\ UNCHANGED butRetryq

\* the file try_append_file is called for
Path == retryq.files[retryq.i]

\* the state after try_append_file has ended for the file p with the result
\* r, the file moved to the directory to or left where it is
Ended(s, p, r, to) ==
  [s EXCEPT !.pc = IF s.i < Len(s.files) THEN "file" ELSE "scanned",
            !.i = s.i + 1, !.attempt = 0,
            !.result = [s.result EXCEPT ![p] = r],
            !.failed = IF to = "stays" THEN s.failed ELSE s.failed \ {p},
            !.perm = IF to = "perm" THEN s.perm \cup {p} ELSE s.perm,
            !.retries = IF to = "retries" THEN s.retries \cup {p} ELSE s.retries]

\* try_append_file on a file whose JSON does not load: the file is moved to
\* perm and the result is False; an exception of the move leaves the
\* function and is logged by main_once
TryCorrupt ==
  /\ retryq.pc = "file"
  /\ Path \in retryq.corrupt
  /\ \E moved \in BOOLEAN :
       retryq' = IF moved THEN Ended(retryq, Path, "False", "perm")
                 ELSE Ended(retryq, Path, "raised", "stays")
  /\ UNCHANGED extraction
  /\ UNCHANGED butRetryq

\* if attempt >= MAX_ATTEMPTS
LastAttempt(attempt, max) == attempt >= max

\* the state after the attempt a of append_invoice_row(parsed) had the
\* outcome, and the move that follows it succeeded or raised
AfterAttempt(s, p, a, outcome, moved) ==
  IF outcome \in {"True", "False"}
  THEN Ended([s EXCEPT !.rows[p] = s.rows[p] + (IF outcome = "True" THEN 1 ELSE 0)],
             p, "True", IF moved THEN "retries" ELSE "stays")
  ELSE IF LastAttempt(a, s.MAX_ATTEMPTS)
       THEN Ended(s, p, "False", IF moved THEN "perm" ELSE "stays")
       ELSE [s EXCEPT !.pc = "sleep", !.attempt = a]

\* one pass of the loop of try_append_file: attempt += 1, the append, then
\* the bookkeeping and return True, or on an exception give up or sleep
TryAttempt ==
  /\ retryq.pc = "file"
  /\ Path \notin retryq.corrupt
  /\ \E outcome \in {"True", "False", "raise"}, moved \in BOOLEAN :
       retryq' = AfterAttempt(retryq, Path, retryq.attempt + 1, outcome, moved)
  /\ UNCHANGED extraction
  /\ UNCHANGED butRetryq

\* time.sleep(backoff) is over
TryWake ==
  /\ retryq.pc = "sleep"
  /\ retryq' = [retryq EXCEPT !.pc = "file"]
  /\ UNCHANGED extraction
  /\ UNCHANGED butRetryq

NextRetry == RetryLoad \/ MainOnce \/ TryCorrupt \/ TryAttempt \/ TryWake

\* the run starts as the import of the module or at a call of main_once
InitRetry ==
  /\ IdleBut("retryq")
  /\ today = Today
  /\ \E start \in {"load", "call"}, max \in 1..MaxAttempts,
        failed \in SUBSET QueuedSet, corrupt \in SUBSET QueuedSet :
       /\ corrupt \subseteq failed
       /\ retryq = [pc |-> start, MAX_ATTEMPTS |-> max, failed |-> failed,
                    corrupt |-> corrupt, perm |-> {}, retries |-> {},
                    rows |-> [p \in QueuedSet |-> 0],
                    result |-> [p \in QueuedSet |-> "none"],
                    files |-> <<>>, i |-> 0, attempt |-> 0, scans |-> 0]

SpecRetry == InitRetry /\ [][NextRetry]_vars

---------------------------------------------------------------------------
(* ocr_worker.py: process_file and run_ocr_for_sender, with                *)
(* get_sheet_id_for_user of user_registry.py.  Whether the lookup in the   *)
(* registry and the append succeed is the environment's choice.            *)
(***************************************************************************)
\* the media files waiting in data/media, and the WhatsApp numbers
MediaFiles == {"m1.jpg", "m2.jpg"}
Senders == {"+91", "+92"}
\* no row of the registry for the number
NotRegistered == "None"
SheetIds == {"sheet1", "sheet2"}

\* get_sheet_id_for_user(from_number): column B of the first row of the
\* registry with the number in column A, or None
GetSheetIdForUser(registry, from_number) == registry[from_number]

\* the state after process_file(path, from_number), where the lookup in the
\* registry and the append succeed or raise
ProcessFile(s, path, from_number, lookup, appended) ==
  IF path \in s.ocr THEN s
  ELSE IF ~lookup THEN [s EXCEPT !.ocr = s.ocr \cup {path}, !.raised = TRUE]
  ELSE LET sheet_id == GetSheetIdForUser(s.registry, from_number)
       IN  [s EXCEPT !.ocr = s.ocr \cup {path},
                     !.media = s.media \ {path},
                     !.rows = IF sheet_id # NotRegistered /\ appended
                              THEN s.rows \cup {<<path, sheet_id>>} ELSE s.rows]

\* the webhook of a sender calls process_file for the file it has received
ProcessFileCall ==
  /\ worker.pc = "ready"
  /\ \E path \in worker.media, lookup \in BOOLEAN, appended \in BOOLEAN :
       worker' = [ProcessFile(worker, path, worker.sender[path], lookup, appended)
                    EXCEPT !.raised = FALSE]
  /\ UNCHANGED extraction
  /\ UNCHANGED butWorker

\* run_ocr_for_sender(from_number) is called: MEDIA_DIR.glob("*")
RunOcrForSender ==
  /\ worker.pc = "ready"
  /\ worker.media # {}
  /\ \E from_number \in Senders :
       worker' = [worker EXCEPT !.pc = "run", !.from_number = from_number,
                                !.todo = worker.media]
  /\ UNCHANGED extraction
  /\ UNCHANGED butWorker

\* the state after one pass of the loop of run_ocr_for_sender: an exception
\* of process_file ends the run
AfterPass(s, path) ==
  [s EXCEPT !.todo = s.todo \ {path},
            !.pc = IF s.raised \/ s.todo = {path} THEN "ready" ELSE "run",
            !.raised = FALSE]

\* one pass of the loop: process_file(f, from_number) for the next file
RunPass ==
  /\ worker.pc = "run"
  /\ \E path \in worker.todo, lookup \in BOOLEAN, appended \in BOOLEAN :
       worker' = AfterPass(ProcessFile(worker, path, worker.from_number, lookup, appended), path)
  /\ UNCHANGED extraction
  /\ UNCHANGED butWorker

NextWorker == ProcessFileCall \/ RunOcrForSender \/ RunPass

\* media of the senders wait in the directory; a sender has a sheet of its
\* own in the registry or none
InitWorker ==
  /\ IdleBut("worker")
  /\ today = Today
  /\ \E sender \in [MediaFiles -> Senders], registry \in [Senders -> SheetIds \cup {NotRegistered}] :
       worker = [pc |-> "ready", sender |-> sender, registry |-> registry,
                 media |-> MediaFiles, ocr |-> {}, rows |-> {},
                 from_number |-> "", todo |-> {}, raised |-> FALSE]

SpecWorker == InitWorker /\ [][NextWorker]_vars

---------------------------------------------------------------------------
(* One call of _norm_text(t).                                              *)
(***************************************************************************)
\* _norm_text(t) runs and returns
NormTextCall ==
  /\ norm.pc = "call"
  /\ norm' = [norm EXCEPT !.pc = "returned", !.val = NormText(norm.t)]
  /\ UNCHANGED extraction
  /\ UNCHANGED butNorm

NextNorm == NormTextCall

\* words with the letters O, l and I: a misread number, runs of l and I
\* that are a word and that stand inside one, and single letters
NormFrags == {Chars("1O5"), Chars("A1O5"), Chars("NO"), Chars("ll"), Chars("II"), Chars("Bill"), Chars("lo")}
NormSeps == {Chars(" "), <<CR>>, <<CR, " ", CR>>}
\* the longest text has this many words
MaxWords == 2
NormDocs == DocsOf(NormFrags, NormSeps, MaxWords)

InitNorm ==
  /\ IdleBut("norm")
  /\ today = Today
  /\ \E t \in NormDocs : norm = [pc |-> "call", t |-> t, val |-> <<>>]

SpecNorm == InitNorm /\ [][NextNorm]_vars

---------------------------------------------------------------------------
(* get_sheet_for_customer of utils/customer_router.py, with load_customers *)
(* and save_customers of utils/customers.py and create_customer_sheet of   *)
(* utils/sheets_manager.py.  The webhook requests run side by side; each   *)
(* call of the three functions is one step.                                *)
(***************************************************************************)
\* the webhook requests that run side by side
MaxRequests == 2
\* the calls of get_sheet_for_customer one request thread makes in a row
MaxLookups == 2

CustomerIds == {"911", "922"}

\* the request r with its call changed to c
WithRequest(r, c) == [router EXCEPT !.reqs[r] = c]

\* whatsapp_webhook calls get_sheet_for_customer(customer_id)
GetSheetForCustomer(r) ==
  /\ router.pc = "run"
  /\ router.reqs[r].pc \in {"ready", "returned", "raised"}
  /\ router.reqs[r].n < MaxLookups
  /\ \E customer_id \in CustomerIds :
       router' = WithRequest(r, [pc |-> "load", customer_id |-> customer_id,
                                 customers |-> <<>>, n |-> router.reqs[r].n + 1])
  /\ UNCHANGED extraction
  /\ UNCHANGED butRouter

\* customers = load_customers(): the content of the file, {} without one
LoadCustomers(r) ==
  /\ router.pc = "run"
  /\ router.reqs[r].pc = "load"
  /\ router' = WithRequest(r, [router.reqs[r] EXCEPT
                                 !.customers = router.file,
                                 !.pc = IF router.reqs[r].customer_id \in DOMAIN router.file
                                        THEN "return" ELSE "create"])
  /\ UNCHANGED extraction
  /\ UNCHANGED butRouter

\* the customers of the request with the new sheet entered
WithSheet(customers, customer_id, sheet_id) ==
  [c \in DOMAIN customers \cup {customer_id} |->
     IF c = customer_id THEN sheet_id ELSE customers[c]]

\* sheet_id = create_customer_sheet(customer_id), entered into the local
\* customers: the sheet is created and gets its header row; an exception
\* of the creation or of the header row leaves the function
CreateCustomerSheet(r) ==
  /\ router.pc = "run"
  /\ router.reqs[r].pc = "create"
  /\ \E created \in BOOLEAN, header \in BOOLEAN :
       router' =
         [WithRequest(r, IF created /\ header
                         THEN [router.reqs[r] EXCEPT
                                 !.pc = "save",
                                 !.customers = WithSheet(router.reqs[r].customers,
                                                         router.reqs[r].customer_id,
                                                         router.next_id)]
                         ELSE [router.reqs[r] EXCEPT !.pc = "raised"])
            EXCEPT !.sheets = IF created
                              THEN router.sheets \cup {<<router.next_id, router.reqs[r].customer_id>>}
                              ELSE router.sheets,
                   !.next_id = router.next_id + (IF created THEN 1 ELSE 0)]
  /\ UNCHANGED extraction
  /\ UNCHANGED butRouter

\* save_customers(customers): the file is overwritten with the local
\* customers
SaveCustomers(r) ==
  /\ router.pc = "run"
  /\ router.reqs[r].pc = "save"
  /\ router' = [WithRequest(r, [router.reqs[r] EXCEPT !.pc = "return"]) EXCEPT
                  !.file = router.reqs[r].customers,
                  !.saved = router.saved \cup DOMAIN router.reqs[r].customers]
  /\ UNCHANGED extraction
  /\ UNCHANGED butRouter

\* return customers[customer_id]["sheet_id"]
ReturnSheetId(r) ==
  /\ router.pc = "run"
  /\ router.reqs[r].pc = "return"
  /\ router' = [WithRequest(r, [router.reqs[r] EXCEPT !.pc = "returned"]) EXCEPT
                  !.returned = router.returned \cup
                     {<<router.reqs[r].customer_id,
                        router.reqs[r].customers[router.reqs[r].customer_id]>>}]
  /\ UNCHANGED extraction
  /\ UNCHANGED butRouter

NextRouter ==
  \E r \in 1..MaxRequests :
    \/ GetSheetForCustomer(r)
    \/ LoadCustomers(r)
    \/ CreateCustomerSheet(r)
    \/ SaveCustomers(r)
    \/ ReturnSheetId(r)

\* no file data/customers.json yet, no sheet, no request
InitRouter ==
  /\ IdleBut("router")
  /\ today = Today
  /\ router = [pc |-> "run", file |-> <<>>, sheets |-> {}, next_id |-> 1,
               saved |-> {}, returned |-> {},
               reqs |-> [r \in 1..MaxRequests |-> [pc |-> "ready", n |-> 0]]]

SpecRouter == InitRouter /\ [][NextRouter]_vars

---------------------------------------------------------------------------
(* Properties of extract_fields.                                           *)
(***************************************************************************)
Done == pc = "done"
Range(s) == {s[i] : i \in 1..Len(s)}
Values(cs) == {c.val : c \in Range(cs)}
\* v is the largest float of S
Largest(v, S) == v \in S /\ \A w \in S : ~FloatLess(v, w)
One == Num(Chars("1"), <<>>)
\* |v - a| < 1
WithinOne(v, a) ==
  /\ FloatLess(FloatAdd(a, [One EXCEPT !.neg = TRUE]), v)
  /\ FloatLess(v, FloatAdd(a, One))
\* how often the word w stands in s
Count(s, w) == Cardinality({i \in 1..Len(s) : At(s, i, w)})

\* the tier rule for the keyword candidates kw and the fallback candidates fb
TierRule(kw, fb) ==
  IF kw # <<>>
  THEN /\ \A c \in Range(total_candidates) : c.tag = "keyword"
       /\ out.total.some /\ Largest(out.total.v, Values(kw))
  ELSE IF fb # <<>>
  THEN /\ Range(total_candidates) = Range(fb)
       /\ out.total.some /\ Largest(out.total.v, Values(fb))
  ELSE out.total = None

\* C1: the total is chosen by tier.  With a labeled (keyword) candidate that
\* parses, no fallback candidate is collected and the total is the largest
\* keyword value; without one, the total is the largest value of the
\* unlabeled (fallback) numbers; without any candidate the total is null.
C1_TotalByTier == Done => TierRule(KeywordCandidates(up), FallbackCandidates(up))

\* two labeled totals of different value and a larger unlabeled number next
\* to them: the total is the larger labeled one
C1_Witness ==
  /\ Done
  /\ Cardinality(Values(KeywordCandidates(up))) >= 2
  /\ out.total.some
  /\ \E c \in Range(FallbackCandidates(up)) : FloatLess(out.total.v, c.val)

\* C2: a document with a labeled "Total: 500" and an unlabeled 999 elsewhere
\* (after the amount on its line, on the next line, on any other line) has
\* the total 500.
C2_LabeledTotalWins ==
  (Done /\ Contains(raw, Chars("Total: 500")) /\ Contains(raw, Chars("999")))
    => out.total = Some(Num(Chars("500"), <<>>))

SumRule(amounts) == amounts # <<>> => out.gst = Some(FloatSum(amounts, Len(amounts)))

DateMatches ==
  UNION {{Group(up, m, 1) : m \in Range(ReFindIter(DATE_PATTERNS[k], up))} :
           k \in 1..Len(DATE_PATTERNS)}

\* the date is the earliest of the accepted dates, null without one
EarliestRule(accepted) ==
  IF accepted = {} THEN out.date = None
  ELSE \E d \in accepted :
         /\ \A e \in accepted : ~DateLess(e, d)
         /\ out.date = Some(IsoFormat(d))

\* C5: the date is the earliest calendar date among all matches of the date
\* patterns that the lenient parser accepts; a match that fails to parse is
\* dropped; when no match parses the date is null.
C5_EarliestAcceptedDate ==
  Done =>
    EarliestRule({p.v : p \in {q \in {DtParse(StripChars(t, {" ", ".", ",", ":"}), today) :
                                        t \in DateMatches} : q.some}})

\* a rejected match beside two accepted ones, the earlier of them found
\* second
C5_Witness ==
  /\ Done
  /\ Contains(raw, Chars("31/02/2025"))
  /\ Len(date_candidates) = 2
  /\ DateLess(date_candidates[2], date_candidates[1])
  /\ out.date = Some(IsoFormat(date_candidates[2]))

\* C6: dates written as day, month name and year joined by hyphens are date
\* candidates: "Invoice Date 23-Jul-2025" with a later "Due Date
\* 23-Aug-2025" gives 2025-07-23, literal scenario 1 gives 2025-01-23 and
\* literal scenario 2 gives 2025-07-23.
C6_HyphenatedDates ==
  Done =>
    /\ raw = TieBreakDoc => out.date = Some(Chars("2025-07-23"))
    /\ raw = Scenario1 => out.date = Some(Chars("2025-01-23"))
    /\ raw = Scenario2 => out.date = Some(Chars("2025-07-23"))

\* C7: with the word INVOICE as a title ("TAX INVOICE") and the labeled
\* number "Invoice No. GST-3525-26" in the document, invoice_number is the
\* labeled token GST-3525-26.
C7_LabeledInvoiceNumber ==
  (/\ Done
   /\ Contains(raw, Chars("TAX INVOICE"))
   /\ Contains(raw, Chars("Invoice No. GST-3525-26"))
   /\ ~Contains(raw, Chars("Invoice No: A-77"))
   /\ ~Contains(raw, Chars("Bill No: IN-15")))
    => out.invoice_number = Some(Chars("GST-3525-26"))

\* C8: for every text, the total is null or a finite number >= 0, and gst
\* is null or a finite number >= 0.
C8_FiniteNonNegative ==
  /\ out.total.some => FiniteNonNegative(out.total.v)
  /\ out.gst.some => FiniteNonNegative(out.gst.v)

\* the days of the month m of the year y, by the Gregorian rule
CalendarDays(y, m) ==
  IF m = 2 /\ ((y % 4 = 0 /\ y % 100 # 0) \/ y % 400 = 0) THEN 29
  ELSE <<31, 28, 31, 30, 31, 30, 31, 31, 30, 31, 30, 31>>[m]

\* s is YYYY-MM-DD and names a day of the calendar
IsIsoDate(s) ==
  /\ Len(s) = 10
  /\ s[5] = "-" /\ s[8] = "-"
  /\ \A i \in {1, 2, 3, 4, 6, 7, 9, 10} : s[i] \in Digits
  /\ LET y == DigitsVal(SubSeq(s, 1, 4), 4)
         m == DigitsVal(SubSeq(s, 6, 7), 2)
         d == DigitsVal(SubSeq(s, 9, 10), 2)
     IN  y >= 1 /\ m \in 1..12 /\ d >= 1 /\ d <= CalendarDays(y, m)

\* C9: for every text, the date is null or a string YYYY-MM-DD that names a
\* valid calendar date, without a time of day.
C9_IsoDate == out.date.some => IsIsoDate(out.date.v)

\* a date reported from a document that also carries an impossible date
C9_Witness ==
  /\ Done
  /\ Contains(raw, Chars("31/02/2025"))
  /\ out.date = Some(Chars("2017-06-30"))

\* C10: for every text, the supplier is null or a string of at least 3
\* characters, never the empty string, whether it comes from the heading
\* rule or from the GSTIN rule.
C10_SupplierNullOrName ==
  Done => (out.supplier = None \/ Len(out.supplier.v) >= 3)

---------------------------------------------------------------------------
(* Error handling of extract_fields.                                       *)
(***************************************************************************)
Fields == {"supplier", "invoice_number", "date", "total", "gst"}

\* a field whose section finds nothing is null
NotFoundIsNull ==
  /\ (FirstHeading(lines) = 0 /\ FirstGstin(lines) = 0) => out.supplier = None
  /\ (\A k \in 1..Len(INVOICE_PATTERNS) : ~ReSearch(INVOICE_PATTERNS[k], up).ok)
       => out.invoice_number = None
  /\ date_candidates = <<>> => out.date = None
  /\ total_candidates = <<>> => out.total = None
  /\ (gst_amounts = <<>> /\ ~ReSearch(TOTAL_TAX_RE, up).ok) => out.gst = None

\* the positions of the call in the order of the sections
Positions == <<"start", "supplier", "invoice", "date", "total", "gst", "finish", "done">>
PositionOf(p) == CHOOSE i \in 1..Len(Positions) : Positions[i] = p
\* the section at the position p has run
Past(p) == PositionOf(pc) > PositionOf(p)

\* every field is null until its own section has run and from then on what
\* that section computes from the text, whatever the other sections find
EachFieldItsOwn ==
  /\ out.supplier = IF ~Past("supplier") THEN None
                    ELSE IF Past("finish") THEN FinalSupplier(SupplierOf(lines))
                    ELSE SupplierOf(lines)
  /\ out.invoice_number = IF Past("invoice") THEN InvoiceNumberOf(up) ELSE None
  /\ out.date = IF Past("date") THEN ChooseDate(DateCandidates(up, today)) ELSE None
  /\ out.total = IF Past("total") THEN ChooseTotal(TotalCandidates(up)) ELSE None
  /\ out.gst = IF Past("gst") THEN ChooseGst(GstAmounts(up), up) ELSE None

---------------------------------------------------------------------------
(* Calls and the state between them.                                       *)
(***************************************************************************)
\* C12: two runs of extract_fields on the same text give the same values
\* for all five fields, in any order relative to other extractions: the
\* result is a function of the text alone.
C12_SameTextSameResult ==
  \A c, d \in 1..Len(calls) :
    (calls[c].pc = "done" /\ calls[d].pc = "done" /\ calls[c].raw = calls[d].raw)
      => calls[c].out = calls[d].out

\* the day the call with the frame f reads, or has read, from the clock
DayOf(f) == IF f.now.some THEN f.now.v ELSE today

---------------------------------------------------------------------------
(* Money normalization.                                                    *)
(***************************************************************************)
\* C13: money normalization maps "<rupee>4,490.00", "Rs. 4490" and
\* "INR4490.00" to 4490.00, and a text that is empty or holds no digit once
\* currency markers, separators and other characters are stripped (such as
\* the dash) to null, not to 0.
C13_MoneyNormalization ==
  money.pc = "returned" =>
    /\ money.s \in {(<<RUPEE>> \o Chars("4,490.00")), Chars("Rs. 4490"), Chars("INR4490.00")} => money.val = Some(Num(Chars("4490"), <<>>))
    /\ Keep(money.s, Digits) = <<>> => money.val = None

\* the dash alone: nothing is left of it, and the result is null
C13_Witness ==
  /\ money.pc = "returned"
  /\ money.s = <<EMDASH>>
  /\ money.val = None

---------------------------------------------------------------------------
(* The records and files of parser.py.                                     *)
(***************************************************************************)
\* C14: the record assembled for a document carries, next to the five
\* fields, the raw OCR text exactly as it was supplied: no line dropped, no
\* whitespace trimmed, no substitution applied.
C14_RawTextAsSupplied ==
  parser.pc # "idle" /\ parser.parsed.some
    => parser.parsed.v.raw_text = parser.ocr_dir[parser.parsed.v.file[1]]

\* the record has total or invoice_number missing
HasFailure(p) ==
  \/ p.total = None \/ p.total = Some(Num(Chars("0"), <<>>))
  \/ p.invoice_number = None \/ p.invoice_number = Some(<<>>)

\* C19: after main has run with force off, every .txt file of data/ocr
\* that had no parsed JSON has one in data/parsed (and a record in
\* parser_failures when total or invoice_number is missing), and a JSON
\* that was there is unchanged; with force on, every JSON is rewritten.
C19_EveryFileParsed ==
  parser.pc \in {"returned", "name_error"} =>
    \A t \in DOMAIN parser.ocr_dir :
      /\ t \in DOMAIN parser.parsed_dir
      /\ parser.force => parser.parsed_dir[t] # OldJson
      /\ parser.parsed_dir[t] # OldJson
           => /\ parser.parsed_dir[t] = ParseFile(t, parser.ocr_dir[t], today)
              /\ HasFailure(parser.parsed_dir[t]) => t \in parser.failure_dir

---------------------------------------------------------------------------
(* append_invoice_row of sheets.py and sheets_runtime.py.                  *)
(***************************************************************************)
\* the requests of the call that succeeded
Successes(log) == {i \in 1..Len(log) : log[i] = "ok"}

---------------------------------------------------------------------------
(* append_to_google_sheet of parser.py.                                    *)
(***************************************************************************)
\* the rows of the sheet with the file name f
RowsOf(f) == {i \in 1..Len(gsheet.rows) : gsheet.rows[i] = f}

\* C17: with GOOGLE_SHEET_FORCE_APPEND off, after any sequence of calls
\* (also with a failing read of the file column, also interleaved) the sheet
\* holds at most one data row per file name, and a call for a file already
\* present appends nothing and returns True; with force-append on, every
\* successful call appends exactly one row.
C17_DuplicateProtection ==
  gsheet.pc = "run" =>
    /\ ~gsheet.force => \A f \in FileNames : Cardinality(RowsOf(f)) <= 1
    /\ \A w \in 1..MaxWriters :
         gsheet.writers[w].pc = "returned" =>
           /\ ~gsheet.force /\ gsheet.writers[w].present
                => gsheet.writers[w].result = "True" /\ gsheet.writers[w].appended = 0
           /\ gsheet.force /\ gsheet.writers[w].result = "True"
                => gsheet.writers[w].appended = 1

---------------------------------------------------------------------------
(* try_append_file and main_once of retry_failed.py.                       *)
(***************************************************************************)
\* C18: try_append_file makes at most MAX_ATTEMPTS attempts for a file, and
\* whenever it returns the file has left the queue: archived after an
\* append that succeeded or was skipped as duplicate, moved to perm when
\* its JSON is corrupt or all attempts failed; hence a file whose append
\* succeeded is not appended again by a later scan.
C18_ReturnedMeansLeftQueue ==
  retryq.pc # "idle" =>
    /\ retryq.attempt <= retryq.MAX_ATTEMPTS
    /\ \A p \in QueuedSet :
         /\ retryq.result[p] \in {"True", "False"} => p \notin retryq.failed
         /\ retryq.result[p] = "True" => p \in retryq.retries
         /\ retryq.result[p] = "False" => p \in retryq.perm
         /\ retryq.rows[p] <= 1

---------------------------------------------------------------------------
(* process_file and run_ocr_for_sender of ocr_worker.py.                   *)
(***************************************************************************)
\* C20: across any sequence of run_ocr_for_sender and process_file calls
\* with media of several senders waiting, the row of a media file is
\* appended only to the sheet registered for the number that sent the file,
\* and to no sheet when that sender is not registered.
C20_RowGoesToItsSender ==
  worker.pc # "idle" =>
    \A path \in MediaFiles, id \in SheetIds :
      <<path, id>> \in worker.rows => worker.registry[worker.sender[path]] = id

---------------------------------------------------------------------------
(* The supplier rules.                                                     *)
(***************************************************************************)
\* the supplier candidate: the field between the supplier section and the
\* closing length check
Candidates(P) == Past("supplier") /\ ~Past("finish") => P

\* the supplier is the title-cased join of the lines ls, null without lines
BlockRule(ls) ==
  IF ls = <<>> THEN out.supplier = None
  ELSE out.supplier = Some(Title(Join(ls, <<" ">>)))

\* C21: when some line matches an invoice-heading marker, the supplier
\* candidate is the space-joined, title-cased sequence of all non-empty
\* trimmed lines strictly before the first such line, and the GSTIN
\* fallback is not consulted even if that candidate is empty.
C21_HeadingBlock ==
  /\ Past("start") => lines = StrippedLines(up)
  /\ \A h \in 1..Len(lines) :
       (ReSearch(HEADING_RE, lines[h]).ok /\ \A j \in 1..(h - 1) : ~ReSearch(HEADING_RE, lines[j]).ok)
         => Candidates(BlockRule(SubSeq(lines, 1, h - 1)))

\* the heading stands on the first line and a GSTIN line with lines above
\* it follows: the candidate is null
C21_Witness ==
  /\ pc = "invoice"
  /\ ReSearch(HEADING_RE, lines[1]).ok
  /\ FirstGstin(lines) = 3
  /\ out.supplier = None

\* a GST identifier as the rule describes it: 14 alphanumeric characters
\* that begin with two digits
GstIdentifierRe == <<Rep(Digits, 2, 2), Rep(UpperSet \cup Digits, 12, 12)>>
NamesGstin(l) == Contains(l, Chars("GSTIN")) \/ ReSearch(GstIdentifierRe, l).ok
NoHeading == \A h \in 1..Len(lines) : ~ReSearch(HEADING_RE, lines[h]).ok

\* the supplier is null, or built from up to three lines above the line g
AboveRule(g) ==
  \/ out.supplier = None
  \/ out.supplier = Some(Title(Join(SubSeq(lines, IF g > 4 THEN g - 3 ELSE 1, g - 1), <<" ">>)))

\* C22: when no line matches an invoice-heading marker, the supplier is
\* non-null only if some line contains the literal GSTIN or a GST
\* identifier (14 alphanumeric characters beginning with two digits), and
\* is then built from at most the three lines above the first such line; a
\* document with no heading and no such line, for example one whose longest
\* tokens are ordinary words, yields a null supplier.
C22_GstinFallback ==
  (Done /\ NoHeading) =>
    /\ (\A g \in 1..Len(lines) : ~NamesGstin(lines[g])) => out.supplier = None
    /\ \A g \in 1..Len(lines) :
         (NamesGstin(lines[g]) /\ \A j \in 1..(g - 1) : ~NamesGstin(lines[j])) => AboveRule(g)

---------------------------------------------------------------------------
(* _norm_text.                                                             *)
(***************************************************************************)
\* the words of the text t: its longest runs of word characters, each as
\* the pair of its first and last index
WordsOf(t) ==
  {w \in (1..Len(t)) \X (1..Len(t)) :
     /\ w[1] <= w[2]
     /\ \A i \in w[1]..w[2] : t[i] \in WordChars
     /\ w[1] = 1 \/ t[w[1] - 1] \notin WordChars
     /\ w[2] = Len(t) \/ t[w[2] + 1] \notin WordChars}

\* the text has a word of the form digits, letter O, digits
HasOhToken(t) ==
  \E w \in WordsOf(t) : \E k \in (w[1] + 1)..(w[2] - 1) :
    t[k] = "O" /\ \A i \in (w[1]..w[2]) \ {k} : t[i] \in Digits

\* the text has a word that is a run of two or more l and I
HasEllWord(t) ==
  \E w \in WordsOf(t) : w[2] > w[1] /\ \A i \in w[1]..w[2] : t[i] \in {"l", "I"}

\* the text has two or more l and I in a row anywhere
HasEllRun(t) == \E i \in 1..(Len(t) - 1) : t[i] \in {"l", "I"} /\ t[i + 1] \in {"l", "I"}

\* the characters of a text that are not white space
Visible(t) == SelectSeq(t, LAMBDA c : c \notin Space)

\* the visible characters of t with O and l replaced where oh and ell say so
Substituted(v, oh, ell) ==
  [i \in 1..Len(v) |-> IF v[i] = "O" /\ oh THEN "0" ELSE IF v[i] = "l" /\ ell THEN "1" ELSE v[i]]

NoCarriageReturn(t) == \A i \in 1..Len(t) : t[i] # CR

\* C23 as stated: every O becomes 0 exactly when the text has a token
\* digits, O, digits; every l becomes 1 exactly when the text has a run of
\* two or more l and I anywhere; the output has no carriage return.
C23_NormalizeAnywhere ==
  norm.pc = "returned" =>
    /\ Visible(norm.val) = Substituted(Visible(norm.t), HasOhToken(norm.t), HasEllRun(norm.t))
    /\ NoCarriageReturn(norm.val)

\* C23, amended: every O becomes 0 exactly when the text has a token
\* digits, O, digits; every l becomes 1 exactly when the text has a word
\* that consists of two or more l and I; otherwise the letters are left
\* unchanged; the output has no carriage return.
C23_NormalizeTokens ==
  norm.pc = "returned" =>
    /\ Visible(norm.val) = Substituted(Visible(norm.t), HasOhToken(norm.t), HasEllWord(norm.t))
    /\ NoCarriageReturn(norm.val)

\* the word II stands next to the word lo: the l of lo has become 1, and
\* the carriage return between them a newline
C23_Witness ==
  /\ norm.pc = "returned"
  /\ norm.t = Chars("II") \o <<CR>> \o Chars("lo")
  /\ norm.val = Chars("II") \o <<NL>> \o Chars("1o")

---------------------------------------------------------------------------
(* The second search for the tax.                                          *)
(***************************************************************************)
\* C24: when the first GST pass (all occurrences of the three tax-label
\* patterns) yields no numeric candidate, gst is null: the second "total
\* tax" search never supplies a value, for it repeats a pattern whose
\* every occurrence the first pass has tried and rejected.
C24_SecondSearchIsIdle ==
  Past("gst") =>
    /\ gst_amounts = GstAmounts(up)
    /\ gst_amounts = <<>> => out.gst = None

\* the second search matches a "total tax" label whose amount does not
\* parse, after a first pass without a candidate
C24_Witness ==
  /\ Done
  /\ gst_amounts = <<>>
  /\ ReSearch(TOTAL_TAX_RE, up).ok
  /\ out.gst = None

---------------------------------------------------------------------------
(* get_sheet_for_customer.                                                 *)
(***************************************************************************)
\* C25: under any sequence or interleaving of get_sheet_for_customer calls
\* at most one sheet is ever created per customer id, every call for the
\* same customer id returns the same sheet id, and a mapping once saved to
\* customers.json is never lost when another customer is registered.
C25_OneSheetPerCustomer ==
  router.pc = "run" =>
    \A c \in CustomerIds :
      /\ Cardinality({s \in router.sheets : s[2] = c}) <= 1
      /\ Cardinality({s \in router.returned : s[1] = c}) <= 1
      /\ c \in router.saved => c \in DOMAIN router.file

====
